---------------------------- MODULE Spec2Model ----------------------------
(***************************************************************************)
(* Model of the AI analysis pipeline of server.js: strategy selection      *)
(* (performAIAnalysis), chunk planning and orchestration                   *)
(* (performChunkedAnalysis), the provider calls (callOpenAI, callClaude,   *)
(* callMistral, callGemini), response parsing (parseAIAnalysis,            *)
(* parseIndividualFlows) and the /api/flows/ai-analysis endpoint.          *)
(*                                                                         *)
(* Texts.  A flow name is a sequence of atomic characters.  A provider     *)
(* response is a markdown text                                             *)
(*     <lead chars> {"## " title "\n" body} {"### " name "\n" body}        *)
(* held as [lead, h2s, blocks].  The body of a "###" block is              *)
(*     "**Business Description:** " <d chars> "\n"                         *)
(*     "**Improvement Opportunities:** " <m chars>                         *)
(* with either line absent when its length is -1.  Prose never contains a  *)
(* flow name, "Blue", a bold name or a numbered name: the name-anchored    *)
(* patterns of parseIndividualFlows can match inside "###" headers only.   *)
(***************************************************************************)
EXTENDS Integers, Sequences, FiniteSets, TLC

VARIABLES
    provider,         \* req.body.provider ("" when missing)
    apiKeyIsAIza,     \* whether req.body.apiKey starts with "AIza"
    flowsData,        \* req.body.flowsData: NoData or [metaSize, flows]
    pc,               \* position of the request handler
    strategy,         \* "none" | "single" | "chunked": branch of performAIAnalysis
    chunks,           \* performChunkedAnalysis: chunks
    i,                \* performChunkedAnalysis: index of the current chunk (1-based)
    allFlowAnalyses,  \* performChunkedAnalysis: accumulator
    chunkStatus,      \* per chunk: "Pending" | "InFlight" | "Succeeded" | "FailedIsolated"
    phase,            \* which call is awaited: "none" | "single" | "chunk" | "org"
    calls,            \* history: the phase of every complete() call issued
    callState,        \* "none" | "inflight" | "backoff" | "returned" | "threw"
    retryCount,       \* callClaude: retryCount of the current invocation
    attempts,         \* HTTP requests sent by the current complete() call
    sleeps,           \* backoff sleeps taken by the current complete() call
    overloads,        \* 529 answers received by the current complete() call
    waitTime,         \* callClaude: waitTime of the pending backoff sleep
    callStatus,       \* HTTP status of the last answer (0: none yet, or no answer)
    analysisText,     \* the text the last successful call returned
    result,           \* value returned by performAIAnalysis, or NoResult
    httpStatus,       \* status the endpoint answered with (0: not answered)
    isSandbox,        \* /auth/salesforce: req.query.isSandbox === 'true'
    envLoginUrl,      \* whether process.env.SALESFORCE_LOGIN_URL is set
    envSandboxUrl,    \* whether process.env.SALESFORCE_SANDBOX_URL is set
    tempCredentials,  \* whether tempCredentials[sessionId] is present
    envCredentials,   \* whether SALESFORCE_CLIENT_ID and _SECRET are set
    authPc,           \* position of the OAuth login
    authorizeUrl,     \* login URL of the authorization redirect, or NoUrl
    tokenUrl,         \* login URL of the authorization-code exchange, or NoUrl
    authStatus,       \* status of the last OAuth response (0: none yet)
    flowDetails,      \* the versions fetched from the org, before the filter
    latestFlows,      \* filterToLatestVersions: its return value
    fetchPc,          \* "none" | "fetched" | "filtered"
    accessToken,      \* whether connectionInfo.accessToken is stored
    aiContext,        \* the stored AI conversation context
    requests,         \* per HTTP request: its inputs, position and answer
    accumulators,     \* allFlowAnalyses of each performChunkedAnalysis call
    sfQueries,        \* history: the requests that started a Salesforce query
    aiCalls,          \* history: the requests that called the Completion Client
    loggedOut,        \* history: whether a logout request was answered
    now,              \* Date.now(), in ms
    credentialStore,  \* tempCredentials: the entries, keyed by session id
    issued,           \* history: the session id answered to each set-credentials
    credentialUses,   \* history: the credentials each login request used
    elapses,          \* history: the number of times the clock was advanced
    stream,           \* /api/flows/progress: the events written to the response
    streamPc,         \* /api/flows/progress: position of the handler
    flowCount,        \* getFlowsDataWithProgress: basicFlows.length
    flowIndex,        \* getFlowsDataWithProgress: i
    heartbeatTimer,   \* whether heartbeatInterval is set
    resFinished,      \* res.finished
    clientConnected,  \* whether the client still holds the connection
    heartbeats        \* history: the number of times the interval fired

inputVars == <<provider, apiKeyIsAIza, flowsData>>
runVars   == <<pc, strategy, chunks, i, allFlowAnalyses, chunkStatus, phase,
              calls>>
callVars  == <<callState, retryCount, attempts, sleeps, overloads, waitTime,
              callStatus>>
outVars   == <<analysisText, result, httpStatus>>
authVars  == <<isSandbox, envLoginUrl, envSandboxUrl, tempCredentials,
              envCredentials, authPc, authorizeUrl, tokenUrl, authStatus>>
fetchVars == <<flowDetails, latestFlows, fetchPc>>
serverVars == <<accessToken, aiContext, requests, accumulators, sfQueries,
                aiCalls, loggedOut>>
credVars  == <<now, credentialStore, issued, credentialUses, elapses>>
streamVars == <<stream, streamPc, flowCount, flowIndex, heartbeatTimer,
                resFinished, clientConnected, heartbeats>>
sideVars  == <<serverVars, credVars, streamVars>>
orgVars   == <<authVars, fetchVars, sideVars>>
vars      == <<inputVars, runVars, callVars, outVars, orgVars>>

NoData   == [none |-> TRUE]
NoResult == [none |-> TRUE]
NoText   == [none |-> TRUE]

---------------------------------------------------------------------------
(* Generic sequence helpers                                                *)

RECURSIVE SumSizes(_)
SumSizes(fl) ==
    IF fl = <<>> THEN 0 ELSE Head(fl).size + SumSizes(Tail(fl))

\* String.prototype.toLowerCase, character by character
LowerChar(c) ==
    CASE c = "A" -> "a"
      [] c = "B" -> "b"
      [] c = "C" -> "c"
      [] OTHER   -> c

toLowerCase(s) == [k \in 1..Len(s) |-> LowerChar(s[k])]

\* String.prototype.includes: needle occurs in hay as a contiguous run
includes(hay, needle) ==
    \E p \in 0..(Len(hay) - Len(needle)) :
        \A k \in 1..Len(needle) : hay[p + k] = needle[k]

\* hay begins with needle
startsWith(hay, needle) ==
    /\ Len(needle) <= Len(hay)
    /\ \A k \in 1..Len(needle) : hay[k] = needle[k]

---------------------------------------------------------------------------
(* Size Estimator and Strategy Selector (performAIAnalysis)                *)

SIZE_THRESHOLD  == 100000
COUNT_THRESHOLD == 15
maxChunkSize    == 12000

\* JSON.stringify(flow).length
estimatedSize(flow) == flow.size

\* JSON.stringify(flowsData).length for {metadata: M, flows: [f1, ..., fn]}:
\* {"metadata": M ,"flows":[ f1,f2,...,fn ]}
compactSize(fd) ==
    12 + fd.metaSize + 10 + SumSizes(fd.flows)
       + (IF Len(fd.flows) > 0 THEN Len(fd.flows) - 1 ELSE 0) + 2

shouldChunkGE(size, totalFlows) ==
    size >= SIZE_THRESHOLD \/ totalFlows >= COUNT_THRESHOLD

shouldChunk(size, totalFlows) ==
    size > SIZE_THRESHOLD \/ totalFlows > COUNT_THRESHOLD

---------------------------------------------------------------------------
(* Chunk Planner (performChunkedAnalysis, lines 398-425)                   *)

\* Array.prototype.sort((a, b) => a.estimatedSize - b.estimatedSize): stable
RECURSIVE InsertBySize(_, _)
InsertBySize(sorted, f) ==
    IF sorted = <<>> THEN <<f>>
    ELSE IF estimatedSize(f) < estimatedSize(Head(sorted))
         THEN <<f>> \o sorted
         ELSE <<Head(sorted)>> \o InsertBySize(Tail(sorted), f)

RECURSIVE SortBySize(_)
SortBySize(fl) ==
    IF fl = <<>> THEN <<>>
    ELSE InsertBySize(SortBySize(SubSeq(fl, 1, Len(fl) - 1)), fl[Len(fl)])

flowsBySizeUnsorted(fl) == fl

\* lines 401-404
flowsBySize(fl) == SortBySize(fl)

closeChunkNoCap(currentChunk, currentChunkSize, size) ==
    Len(currentChunk) > 0 /\ currentChunkSize + size > maxChunkSize

closeChunkNoCost(currentChunk, currentChunkSize, size) ==
    Len(currentChunk) > 0 /\ Len(currentChunk) >= 2

\* line 412: start a new chunk before adding this flow
closeChunk(currentChunk, currentChunkSize, size) ==
    /\ Len(currentChunk) > 0
    /\ (currentChunkSize + size > maxChunkSize \/ Len(currentChunk) >= 2)

\* the for loop of lines 410-420 over the flows left, then the flush of 423-425
RECURSIVE PackChunks(_, _, _, _)
PackChunks(rest, done, currentChunk, currentChunkSize) ==
    IF rest = <<>>
    THEN IF Len(currentChunk) > 0 THEN Append(done, currentChunk) ELSE done
    ELSE LET f == Head(rest)
             sz == estimatedSize(f)
         IN IF closeChunk(currentChunk, currentChunkSize, sz)
            THEN PackChunks(Tail(rest), Append(done, currentChunk), <<f>>, sz)
            ELSE PackChunks(Tail(rest), done, Append(currentChunk, f),
                            currentChunkSize + sz)

flowsSortedInPlace(fl) == SortBySize(fl)

\* flowsData.flows once the planning is done: flows.map (line 401) builds a
\* new array and sort (line 404) orders that one, so the array of the
\* caller keeps its records and their order
flowsAfterPlanning(fl) == fl

planChunks(fl) == PackChunks(flowsBySize(fl), <<>>, <<>>, 0)


---------------------------------------------------------------------------
(* Response texts                                                          *)

Block(name, d, m) == [name |-> name, d |-> d, m |-> m]

\* "**Business Description:** " and "**Improvement Opportunities:** "
DESC_LABEL_LEN == 26
IMPR_LABEL_LEN == 31

\* length of the lines under a "###" header, each preceded by its "\n"
BodyLen(b) ==
    (IF b.d >= 0 THEN 1 + DESC_LABEL_LEN + b.d ELSE 0)
  + (IF b.m >= 0 THEN 1 + IMPR_LABEL_LEN + b.m ELSE 0)

\* length of "### " name body, trimmed
BlockLen(b) == 4 + Len(b.name) + BodyLen(b)

\* length of "## " title "\n" body "\n"
H2Len(h) == 3 + Len(h.title) + 1 + h.len + 1

RECURSIVE SumH2(_)
SumH2(hs) == IF hs = <<>> THEN 0 ELSE H2Len(Head(hs)) + SumH2(Tail(hs))

\* header keywords of parseAIAnalysis (lines 664-670), one character each word
KW_ORG_OVERVIEW  == <<"organization overview">>
KW_GLOBAL_ARCH   == <<"global flow architecture">>
KW_POTENTIAL     == <<"potential risks">>
KW_RISK          == <<"risk">>
KW_ORG_WIDE      == <<"organization-wide">>
KW_IMPROVEMENT   == <<"improvement">>
KW_INDIVIDUAL    == <<"individual flow analysis">>
KW_FLOW_ANALYSIS == <<"flow analysis">>

\* "Individual Flow Analysis" contains "flow analysis"
TITLE_INDIVIDUAL == <<"individual ", "flow analysis">>

\* the other section headers AI_ANALYSIS_PROMPT asks for (lines 39-45)
TITLE_GLOBAL_OVERVIEW     == <<"global overview of the selected flows">>
TITLE_POTENTIAL_RISKS     == <<"potential risks">>
TITLE_GLOBAL_IMPROVEMENTS ==
    <<"global ", "improvement", "s on the selected flows">>

---------------------------------------------------------------------------
(* Response Parser: parseIndividualFlows (lines 703-901)                   *)

GENERIC_DESCRIPTION == [k |-> "generic", len |-> 0]
GENERIC_IMPROVEMENT == [k |-> "generic", len |-> 0]
SYNTH_FIELD         == [k |-> "synthesized", len |-> 0]
\* line 895: the fallback description, with the flow's ProcessType in it
SYNTH_DESCRIPTION(processType) ==
    [k |-> "synthesized", len |-> 0, type |-> processType]
UNAVAILABLE_FIELD   == [k |-> "unavailable", len |-> 0]

HeaderSection(b) ==
    [hasHeader |-> TRUE, name |-> b.name, d |-> b.d, m |-> b.m,
     len |-> BlockLen(b)]
ProseSection(n) ==
    [hasHeader |-> FALSE, name |-> <<>>, d |-> -1, m |-> -1, len |-> n]

\* Method 1 (lines 710-713): content.split(/(?=###\s)/), kept when it yields
\* more than one piece
method1(content) ==
    LET pieces == (IF content.lead > 0 THEN <<ProseSection(content.lead)>>
                   ELSE <<>>)
                  \o [k \in 1..Len(content.blocks) |->
                        HeaderSection(content.blocks[k])]
    IN IF Len(pieces) > 1 THEN pieces ELSE <<>>

\* first offset at which needle occurs in hay (hay includes needle)
firstIndex(hay, needle) ==
    CHOOSE p \in 0..(Len(hay) - Len(needle)) :
        /\ \A k \in 1..Len(needle) : hay[p + k] = needle[k]
        /\ \A q \in 0..(p - 1) :
               \E k \in 1..Len(needle) : hay[q + k] # needle[k]

\* Method 2 (lines 720-755) for one flow: the first pattern whose match is
\* longer than 100 characters.  The content here holds at most one "###"
\* block, and then nothing before it.
method2One(content, flowName) ==
    IF Len(content.blocks) = 0 THEN <<>>
    ELSE LET b  == content.blocks[1]
             x  == toLowerCase(b.name)
             fn == toLowerCase(flowName)
         IN \* patterns 1 and 2: "###" followed by the flow name
            IF startsWith(x, fn) /\ BlockLen(b) > 100
            THEN <<HeaderSection(b)>>
            \* patterns 5 and 6: the flow name anywhere, to the end of the text
            ELSE IF includes(x, fn) /\ BlockLen(b) - 4 - firstIndex(x, fn) > 100
                 THEN <<ProseSection(BlockLen(b) - 4 - firstIndex(x, fn))>>
                 ELSE <<>>

RECURSIVE method2(_, _)
method2(content, flows) ==
    IF flows = <<>> THEN <<>>
    ELSE method2One(content, Head(flows).name) \o method2(content, Tail(flows))

\* lines 706-765: the sections handed to the extraction loop
flowSections(content, flows) ==
    LET m1 == method1(content)
    IN IF Len(m1) <= 1 THEN method2(content, flows) ELSE m1

\* the patterns of lines 828-835 tried in the reverse order
extractDescriptionUnlabeledFirst(s) ==
    IF s.d < 0 THEN GENERIC_DESCRIPTION
    ELSE LET cap == 3 + s.d + (IF s.m >= 0 THEN 3 ELSE 0)
         IN IF cap > 50 THEN [k |-> "unlabeled", len |-> cap]
            ELSE IF s.d > 50 THEN [k |-> "labeled", len |-> s.d]
            ELSE GENERIC_DESCRIPTION

\* lines 828-847: the first business pattern whose capture is longer than 50
extractDescription(s) ==
    IF s.d < 0 THEN GENERIC_DESCRIPTION
    ELSE IF s.d > 50 THEN [k |-> "labeled", len |-> s.d]
    ELSE LET cap == 3 + s.d + (IF s.m >= 0 THEN 3 ELSE 0)
         IN IF cap > 50 THEN [k |-> "unlabeled", len |-> cap]
            ELSE GENERIC_DESCRIPTION

\* lines 850-869: the first improvement pattern whose capture is longer than 30
extractImprovements(s) ==
    IF s.m < 0 THEN GENERIC_IMPROVEMENT
    ELSE IF s.m > 30 THEN [k |-> "labeled", len |-> s.m]
    ELSE IF 3 + s.m > 30 THEN [k |-> "unlabeled", len |-> 3 + s.m]
    ELSE GENERIC_IMPROVEMENT

\* lines 769-876: one entry per section that is long enough and has a name
RECURSIVE sectionEntries(_)
sectionEntries(secs) ==
    IF secs = <<>> THEN <<>>
    ELSE LET s == Head(secs)
         IN (IF s.len < 50 \/ ~s.hasHeader THEN <<>>
             ELSE <<[name |-> s.name,
                     businessDescription |-> extractDescription(s),
                     improvements |-> extractImprovements(s)]>>)
            \o sectionEntries(Tail(secs))

\* lines 885-887: some analyzed name contains, or is contained in, the flow name
isAnalyzed(flowName, analysis) ==
    \E k \in 1..Len(analysis) :
        \/ includes(toLowerCase(analysis[k].name), toLowerCase(flowName))
        \/ includes(toLowerCase(flowName), toLowerCase(analysis[k].name))

synthesizedEntryTypeAsName(flow) ==
    [name |-> <<flow.ProcessType>>,
     businessDescription |-> SYNTH_DESCRIPTION(flow.ProcessType),
     improvements |-> SYNTH_FIELD]

synthesizedEntry(flow) ==
    [name |-> flow.name,
     businessDescription |-> SYNTH_DESCRIPTION(flow.ProcessType),
     improvements |-> SYNTH_FIELD]

missingFlowEntriesNone(flows, analysis) == <<>>

missingFlowEntriesFirstOnly(flows, analysis) ==
    IF flows = <<>> \/ isAnalyzed(Head(flows).name, analysis) THEN <<>>
    ELSE <<synthesizedEntry(Head(flows))>>

\* lines 883-888 and 892-898: the fallback entries, one per missing flow; the
\* filter reads the names analyzed before any fallback entry is pushed
RECURSIVE missingFlowEntries(_, _)
missingFlowEntries(flows, analysis) ==
    IF flows = <<>> THEN <<>>
    ELSE (IF isAnalyzed(Head(flows).name, analysis) THEN <<>>
          ELSE <<synthesizedEntry(Head(flows))>>)
         \o missingFlowEntries(Tail(flows), analysis)

\* parseIndividualFlows(content, result, flowsData): the new result.flowAnalysis
parseIndividualFlows(content, flowAnalysis, flows) ==
    LET parsed == flowAnalysis \o sectionEntries(flowSections(content, flows))
    IN parsed \o missingFlowEntries(flows, parsed)


---------------------------------------------------------------------------
(* Response Parser: parseAIAnalysis (lines 639-701)                        *)

EMPTY_FIELD == [src |-> "none", len |-> 0]

sectionField(len) ==
    IF len = 0 THEN EMPTY_FIELD ELSE [src |-> "section", len |-> len]

EmptyResult ==
    [organizationOverview |-> EMPTY_FIELD, potentialRisks |-> EMPTY_FIELD,
     organizationImprovements |-> EMPTY_FIELD, flowAnalysis |-> <<>>]

\* lines 664-670: which branch a section header takes
headerClass(header) ==
    IF includes(header, KW_ORG_OVERVIEW) \/ includes(header, KW_GLOBAL_ARCH)
    THEN "overview"
    ELSE IF includes(header, KW_POTENTIAL) \/ includes(header, KW_RISK)
    THEN "risks"
    ELSE IF includes(header, KW_ORG_WIDE) /\ includes(header, KW_IMPROVEMENT)
    THEN "improvements"
    ELSE IF includes(header, KW_INDIVIDUAL) \/ includes(header, KW_FLOW_ANALYSIS)
    THEN "flows"
    ELSE "none"

\* length of a section's content when the piece ends with the first "#" of
\* a following "### " (the split of line 651 cuts "### x" after its first "#")
withHash(len, followed) ==
    IF followed THEN (IF len > 0 THEN len + 2 ELSE 1) ELSE len

\* analysisText.split(/(?=##\s)/): one piece per "## " line and one per
\* "### " line, each as [header, content length]; the text before the
\* first piece has no header and is skipped (line 659)
textSections(text) ==
    [k \in 1..Len(text.h2s) |->
        [header |-> toLowerCase(text.h2s[k].title),
         len |-> withHash(text.h2s[k].len,
                          k = Len(text.h2s) /\ Len(text.blocks) > 0)]]
    \o
    [k \in 1..Len(text.blocks) |->
        [header |-> toLowerCase(text.blocks[k].name),
         len |-> withHash((IF BodyLen(text.blocks[k]) > 0
                           THEN BodyLen(text.blocks[k]) - 1 ELSE 0),
                          k < Len(text.blocks))]]

\* the loop of lines 653-673
RECURSIVE processSections(_, _, _)
processSections(secs, res, flows) ==
    IF secs = <<>> THEN res
    ELSE LET s == Head(secs)
             c == headerClass(s.header)
             next ==
               CASE c = "overview" ->
                      [res EXCEPT !.organizationOverview = sectionField(s.len)]
                 [] c = "risks" ->
                      [res EXCEPT !.potentialRisks = sectionField(s.len)]
                 [] c = "improvements" ->
                      [res EXCEPT !.organizationImprovements = sectionField(s.len)]
                 [] c = "flows" ->
                      [res EXCEPT !.flowAnalysis =
                          parseIndividualFlows([lead |-> s.len, blocks |-> <<>>],
                                               res.flowAnalysis, flows)]
                 [] OTHER -> res
         IN processSections(Tail(secs), next, flows)

RECURSIVE SumBlocks(_)
SumBlocks(bs) ==
    IF bs = <<>> THEN 0 ELSE BlockLen(Head(bs)) + 1 + SumBlocks(Tail(bs))

TextLen(text) == text.lead + SumH2(text.h2s) + SumBlocks(text.blocks)

parseAIAnalysis(text, flows) ==
    LET r1 == processSections(textSections(text), EmptyResult, flows)
        \* lines 676-693: no structured section found
        r2 == IF /\ r1.organizationOverview = EMPTY_FIELD
                 /\ r1.potentialRisks = EMPTY_FIELD
                 /\ r1.organizationImprovements = EMPTY_FIELD
                 /\ TextLen(text) > 0
              THEN [r1 EXCEPT !.organizationOverview =
                                 [src |-> "wholeText", len |-> TextLen(text)]]
              ELSE r1
    IN \* lines 696-698: parse the whole text when no entry was produced
       IF Len(r2.flowAnalysis) = 0
       THEN [r2 EXCEPT !.flowAnalysis =
               parseIndividualFlows([lead |-> text.lead + SumH2(text.h2s),
                                     blocks |-> text.blocks], <<>>, flows)]
       ELSE r2


---------------------------------------------------------------------------
(* Bounds and input domains                                                *)

MaxFlows       == 3   \* records of a RecordSet in the pipeline specification
MaxParseBlocks == 2   \* "###" blocks of a response in the parser specification
MaxPlanFlows   == 4   \* records of a RecordSet handed to the chunk planner
MaxCount       == 20  \* records of a RecordSet handed to the strategy selector
MaxAttempts    == 6   \* requests of one complete() call the model follows
MaxVersions    == 3   \* versions fetched from the org

SeqsUpTo(S, n) == UNION {[1..k -> S] : k \in 0..n}

\* the ProcessType of the record at position id
TypeAt(id) == IF id % 2 = 1 THEN "AutoLaunchedFlow" ELSE "Flow"

Flow(id, name, size) ==
    [id |-> id, name |-> name, size |-> size, ProcessType |-> TypeAt(id)]

\* pipeline: up to MaxFlows records named a, ab, c, ... in this order, each
\* trivial or larger than SIZE_THRESHOLD on its own
NameAt(k) ==
    CASE k = 1 -> <<"a">>
      [] k = 2 -> <<"a", "b">>
      [] k = 3 -> <<"c">>
      [] OTHER -> <<"d">>
FlowSizes == {10, 120000}
MetaSizes == {50}
FlowLists ==
    UNION {{[k \in 1..n |-> Flow(k, NameAt(k), sz[k])] : sz \in [1..n -> FlowSizes]}
           : n \in 0..MaxFlows}

\* the "###" blocks of an answer about the records of batch: one for each
\* record that keep selects, in the order of the batch
RECURSIVE BlocksFrom(_, _, _)
BlocksFrom(batch, keep, k) ==
    IF k > Len(batch) THEN <<>>
    ELSE (IF keep[k] THEN <<Block(batch[k].name, 60, 40)>> ELSE <<>>)
         \o BlocksFrom(batch, keep, k + 1)

\* pipeline answers to the prompt about batch: an introduction, a block for
\* any of its records, and possibly a closing section "s" that no record
\* is named after
AnswersFor(batch) ==
    [lead : {30}, h2s : {<<>>},
     blocks : {BlocksFrom(batch, keep, 1) \o extra :
                  keep \in [1..Len(batch) -> BOOLEAN],
                  extra \in {<<>>, <<Block(<<"s">>, 60, 40)>>}}]

\* pipeline answers to the organization prompt: prose, with or without an
\* "## Organization Overview" section
OrgAnswers ==
    [lead : {30},
     h2s : {<<>>, <<[title |-> KW_ORG_OVERVIEW, len |-> 40]>>},
     blocks : {<<>>}]

\* parser: record lists with pairwise distinct display names in any order
ParseNames == {<<"a">>, <<"a", "b">>, <<"c">>}
ParseLists ==
    {fl \in SeqsUpTo(ParseNames, MaxFlows) :
        \A j, k \in 1..Len(fl) : j # k => fl[j] # fl[k]}
ParseFlowLists ==
    {[k \in 1..Len(fl) |-> Flow(k, fl[k], 10)] : fl \in ParseLists}

\* parser responses: the body of a block is the "foo"/"bar" sample (70
\* characters with its header), a substantial one, a stub under 50, or one
\* whose description only qualifies with the label markers left around it and
\* whose improvement line is too short for every pattern
HeaderNames == {<<"a">>, <<"a", "b">>, <<"A">>, <<"s">>}
Bodies      == {[d |-> 3, m |-> 3], [d |-> 60, m |-> 40], [d |-> 1, m |-> -1],
                [d |-> 45, m |-> 3]}
\* the four "##" sections of AI_ANALYSIS_PROMPT, the last one holding the
\* "###" blocks
CanonicalH2s ==
    <<[title |-> TITLE_GLOBAL_OVERVIEW, len |-> 40],
      [title |-> TITLE_POTENTIAL_RISKS, len |-> 40],
      [title |-> TITLE_GLOBAL_IMPROVEMENTS, len |-> 40],
      [title |-> TITLE_INDIVIDUAL, len |-> 0]>>
H2Options   == {<<>>, <<[title |-> TITLE_INDIVIDUAL, len |-> 0]>>, CanonicalH2s}
ParseTexts ==
    [lead : {0, 30}, h2s : H2Options,
     blocks : SeqsUpTo({Block(n, b.d, b.m) : n \in HeaderNames, b \in Bodies},
                       MaxParseBlocks)]

\* planner: any sizes around maxChunkSize, inside a RecordSet that is chunked
PlanSizes == {10, 5000, 7000, 13000}
PlanMetaSizes == {100000}
PlanFlowLists ==
    UNION {{[k \in 1..n |-> Flow(k, <<"a">>, sz[k])] : sz \in [1..n -> PlanSizes]}
           : n \in 0..MaxPlanFlows}

\* selector: n trivial records and a metadata object that puts the total
\* at 500 (444 with 3 records), at SIZE_THRESHOLD (99812 with 15 records),
\* below or above it
SelectMetaSizes == {50, 444, 99812, 99813}
SelectFlowLists == {[k \in 1..n |-> Flow(k, <<"a">>, 10)] : n \in 0..MaxCount}

Supported == {"openai", "claude", "mistral", "gemini"}
Providers == Supported \cup {"other", ""}
ErrorStatuses == {400, 401, 403, 429, 529}

---------------------------------------------------------------------------
(* Completion Client (lines 68-193)                                        *)

MAX_RETRIES == 4
BASE_DELAY  == 3000

RECURSIVE Pow2(_)
Pow2(n) == IF n = 0 THEN 1 ELSE 2 * Pow2(n - 1)

backoffWaitLinear(rc) == (rc + 1) * BASE_DELAY

\* line 119
backoffWait(rc) == Pow2(rc) * BASE_DELAY

shouldRetryAnyStatus(p, status, rc) ==
    p = "claude" /\ rc < MAX_RETRIES

shouldRetryNoCap(p, status, rc) ==
    p = "claude" /\ status = 529

shouldRetryOffByOne(p, status, rc) ==
    p = "claude" /\ status = 529 /\ rc <= MAX_RETRIES

\* line 118; callOpenAI, callMistral and callGemini have no retry branch
shouldRetry(p, status, rc) ==
    p = "claude" /\ status = 529 /\ rc < MAX_RETRIES

\* only the key check of line 151: the switch has no default branch
throwsOnGeminiKeyOnly(p, keyIsAIza) == p = "gemini" /\ ~keyIsAIza

\* the switch default (lines 382, 488, 566) and the key check of line 151:
\* the call throws before any request is sent
throwsBeforeRequest(p, keyIsAIza) ==
    p \notin Supported \/ (p = "gemini" /\ ~keyIsAIza)

\* error.response?.status as the caller of complete() sees it: callGemini
\* wraps every failure in a new Error (lines 179-191)
surfacedStatus(p, status) == IF p = "gemini" THEN 0 ELSE status

\* the timeout option of the request, in ms (lines 110 and 169); callOpenAI
\* and callMistral pass none and axios then waits without a limit (0)
timeout(p) ==
    CASE p = "claude" -> 120000
      [] p = "gemini" -> 60000
      [] OTHER -> 0

---------------------------------------------------------------------------
(* Orchestration                                                           *)

unavailableEntry(flow) ==
    [name |-> flow.name, businessDescription |-> UNAVAILABLE_FIELD,
     improvements |-> UNAVAILABLE_FIELD]

placeholdersFirstOnly(chunk) == <<unavailableEntry(chunk[1])>>

\* lines 507-513
placeholders(chunk) == [k \in 1..Len(chunk) |-> unavailableEntry(chunk[k])]

FALLBACK_OVERVIEW(n) == [src |-> "fallback", len |-> n]
FALLBACK_FIELD       == [src |-> "fallback", len |-> 0]

fallbackResultNoEntries(flows, analyses) ==
    [organizationOverview |-> FALLBACK_OVERVIEW(Len(flows)),
     potentialRisks |-> FALLBACK_FIELD,
     organizationImprovements |-> FALLBACK_FIELD,
     flowAnalysis |-> <<>>]

\* lines 583-588
fallbackResult(flows, analyses) ==
    [organizationOverview |-> FALLBACK_OVERVIEW(Len(flows)),
     potentialRisks |-> FALLBACK_FIELD,
     organizationImprovements |-> FALLBACK_FIELD,
     flowAnalysis |-> analyses]

\* lines 574-579
combinedResult(orgResult, analyses) ==
    [organizationOverview |-> orgResult.organizationOverview,
     potentialRisks |-> orgResult.potentialRisks,
     organizationImprovements |-> orgResult.organizationImprovements,
     flowAnalysis |-> analyses]

\* lines 1615-1650
statusCode(status) ==
    IF status \in {401, 403, 429, 400, 529, 520, 502} THEN status ELSE 500

---------------------------------------------------------------------------
(* OAuth login (lines 1266-1441)                                           *)

NoUrl          == ""
PRODUCTION_URL == "https://login.salesforce.com"
SANDBOX_URL    == "https://test.salesforce.com"

\* process.env.SALESFORCE_LOGIN_URL || 'https://login.salesforce.com'
productionLoginUrl ==
    IF envLoginUrl THEN "$SALESFORCE_LOGIN_URL" ELSE PRODUCTION_URL

\* process.env.SALESFORCE_SANDBOX_URL || 'https://test.salesforce.com'
sandboxLoginUrl ==
    IF envSandboxUrl THEN "$SALESFORCE_SANDBOX_URL" ELSE SANDBOX_URL

\* lines 1338-1340
sfLoginUrl(sandbox) ==
    IF sandbox THEN sandboxLoginUrl ELSE productionLoginUrl

\* loginUrl of oauth2ToUse: the client built at line 1404, or the global
\* oauth2 of line 1267
callbackLoginUrl == productionLoginUrl

\* GET /auth/salesforce (lines 1316-1357)
StartLogin ==
    /\ authPc = "start"
    /\ IF ~tempCredentials /\ ~envCredentials
       THEN /\ authPc' = "refused"
            /\ authStatus' = 400
            /\ UNCHANGED authorizeUrl
       ELSE /\ authorizeUrl' = sfLoginUrl(isSandbox)
            /\ authPc' = "redirected"
            /\ authStatus' = 302
    /\ UNCHANGED <<isSandbox, envLoginUrl, envSandboxUrl, tempCredentials,
                   envCredentials, tokenUrl>>
    /\ UNCHANGED <<fetchVars, sideVars, inputVars, runVars, callVars, outVars>>

\* the clean-up of /auth/set-credentials (lines 1305-1309), run for another
\* login more than ten minutes later, drops the credentials of this one
CredentialsExpire ==
    /\ authPc = "redirected"
    /\ tempCredentials
    /\ tempCredentials' = FALSE
    /\ UNCHANGED <<isSandbox, envLoginUrl, envSandboxUrl, envCredentials,
                   authPc, authorizeUrl, tokenUrl, authStatus>>
    /\ UNCHANGED <<fetchVars, sideVars, inputVars, runVars, callVars, outVars>>

\* GET /auth/callback (lines 1360-1441): an error or a missing code is
\* answered 400; otherwise the code is exchanged at the login URL of
\* oauth2ToUse, and conn.authorize resolves or rejects
Callback ==
    /\ authPc = "redirected"
    /\ \E outcome \in {"error", "no_code", "authorized", "rejected"} :
          IF outcome \in {"error", "no_code"}
          THEN /\ authPc' = "callback_refused"
               /\ authStatus' = 400
               /\ UNCHANGED <<tokenUrl, tempCredentials>>
          ELSE /\ tokenUrl' = callbackLoginUrl
               /\ IF outcome = "authorized"
                  THEN /\ authPc' = "connected"
                       /\ authStatus' = 302
                       /\ tempCredentials' = FALSE
                  ELSE /\ authPc' = "failed"
                       /\ authStatus' = 500
                       /\ UNCHANGED tempCredentials
    /\ UNCHANGED <<isSandbox, envLoginUrl, envSandboxUrl, envCredentials,
                   authorizeUrl>>
    /\ UNCHANGED <<fetchVars, sideVars, inputVars, runVars, callVars, outVars>>

\* a production login with the credentials of the environment has succeeded
Connected ==
    /\ isSandbox = FALSE
    /\ envLoginUrl = FALSE
    /\ envSandboxUrl = FALSE
    /\ tempCredentials = FALSE
    /\ envCredentials = TRUE
    /\ authPc = "connected"
    /\ authorizeUrl = PRODUCTION_URL
    /\ tokenUrl = PRODUCTION_URL
    /\ authStatus = 302

---------------------------------------------------------------------------
(* Latest-version filter (filterToLatestVersions, lines 1219-1264)         *)

NoLabel == ""

\* a version of a flow as fetched: MasterLabel (NoLabel when missing),
\* FullName, LastModifiedDate (a day number) and isActive
Version(label, fullName, date, active) ==
    [MasterLabel |-> label, FullName |-> fullName,
     LastModifiedDate |-> date, isActive |-> active]

\* line 1226: flow.MasterLabel || flow.FullName
nameKey(flow) ==
    IF flow.MasterLabel # NoLabel THEN flow.MasterLabel ELSE flow.FullName

\* Object.keys(flowGroups) (line 1236): the keys in the order of their first
\* occurrence (no key of the model is an integer index)
RECURSIVE groupKeys(_, _)
groupKeys(rest, seen) ==
    IF rest = <<>> THEN seen
    ELSE IF \E k \in 1..Len(seen) : seen[k] = nameKey(Head(rest))
         THEN groupKeys(Tail(rest), seen)
         ELSE groupKeys(Tail(rest), Append(seen, nameKey(Head(rest))))

\* flowGroups[key] (lines 1225-1231): the versions of one key, in input order
RECURSIVE versionsOf(_, _)
versionsOf(details, key) ==
    IF details = <<>> THEN <<>>
    ELSE IF nameKey(Head(details)) = key
         THEN <<Head(details)>> \o versionsOf(Tail(details), key)
         ELSE versionsOf(Tail(details), key)

\* versions.sort((a, b) => dateB - dateA) (lines 1243-1247): stable, newest
\* first
RECURSIVE InsertNewestFirst(_, _)
InsertNewestFirst(sorted, v) ==
    IF sorted = <<>> THEN <<v>>
    ELSE IF v.LastModifiedDate > Head(sorted).LastModifiedDate
         THEN <<v>> \o sorted
         ELSE <<Head(sorted)>> \o InsertNewestFirst(Tail(sorted), v)

RECURSIVE sortedVersions(_)
sortedVersions(versions) ==
    IF versions = <<>> THEN <<>>
    ELSE InsertNewestFirst(
             sortedVersions(SubSeq(versions, 1, Len(versions) - 1)),
             versions[Len(versions)])

\* sortedVersions.find(v => v.isActive) (line 1252): its index, 0 when none
RECURSIVE findActive(_, _)
findActive(sorted, k) ==
    IF k > Len(sorted) THEN 0
    ELSE IF sorted[k].isActive THEN k ELSE findActive(sorted, k + 1)

latestVersionNewest(versions) == sortedVersions(versions)[1]

\* lines 1239-1259: the version kept for one group
latestVersion(versions) ==
    IF Len(versions) = 1 THEN versions[1]
    ELSE LET sorted == sortedVersions(versions)
             a == findActive(sorted, 1)
         IN IF a > 0 THEN sorted[a] ELSE sorted[1]

filterToLatestVersions(details) ==
    LET keys == groupKeys(details, <<>>)
    IN [k \in 1..Len(keys) |-> latestVersion(versionsOf(details, keys[k]))]

\* no flow has been fetched
NothingFetched ==
    /\ flowDetails = <<>>
    /\ latestFlows = <<>>
    /\ fetchPc = "none"

\* line 1025 (and 1196): const latestFlows = filterToLatestVersions(flowDetails)
ApplyFilter ==
    /\ fetchPc = "fetched"
    /\ latestFlows' = filterToLatestVersions(flowDetails)
    /\ fetchPc' = "filtered"
    /\ UNCHANGED <<flowDetails, authVars, sideVars, inputVars, runVars,
                   callVars, outVars>>

---------------------------------------------------------------------------
(* HTTP server: the requests in flight, connectionInfo and aiContext        *)

MaxRequests   == 2   \* HTTP requests the server receives
MaxRunRecords == 2   \* records of the RecordSet of an analysis request

Requests == 1..MaxRequests

NoValue == 0

\* lines 26-31, and the object logout assigns (lines 1841-1846)
EmptyContext ==
    [provider |-> NoValue, apiKey |-> NoValue, flowsData |-> NoValue,
     analysisResult |-> <<>>]

Endpoints ==
    {"/api/flows", "/api/flows/progress", "/api/flows/export", "/api/instance",
     "/api/org-info", "/api/flows/ai-analysis", "/api/flows/chat",
     "/api/chat/flows"}

\* the routes that start with the check of connectionInfo.accessToken
\* (lines 1452, 1467, 1524, 1537, 1566, 1587, 1663, 1747)
guardedExceptChat(e) == e \in Endpoints \ {"/api/flows/chat"}

guarded(e) == e \in Endpoints

\* the routes that await getFlowsData or getFlowsDataWithProgress
fetchesFlows(e) ==
    e \in {"/api/flows", "/api/flows/progress", "/api/flows/export"}

\* tokenAtArrival and stale are history fields: whether a token was stored
\* when the request arrived, and whether a logout was answered since
NotReceived ==
    [endpoint |-> "none", pc |-> "idle", status |-> 0, tokenAtArrival |-> FALSE,
     stale |-> FALSE, chunked |-> FALSE, n |-> 0, i |-> 0, body |-> <<>>]

\* a request as its handler finds it
Received(e) ==
    [endpoint |-> e, pc |-> "idle", status |-> 0,
     tokenAtArrival |-> accessToken, stale |-> FALSE, chunked |-> FALSE,
     n |-> 0, i |-> 0, body |-> <<>>]

answeredWith(req, status, body) ==
    [req EXCEPT !.pc = "answered", !.status = status, !.body = body]

\* the entry of record k of the RecordSet of request r
entryOf(r, k) == [name |-> <<r, k>>]

\* every performChunkedAnalysis call declares its own allFlowAnalyses
\* (line 430)
accumulatorShared(r) == 1

accumulator(r) == r

\* only analysisResult and flowsData are stored
storeResultOnly(ctx, r, analysisResult) ==
    [ctx EXCEPT !.flowsData = r, !.analysisResult = analysisResult]

\* lines 1602-1605: the four assignments, with no await between them
storeContext(ctx, r, analysisResult) ==
    [provider |-> r, apiKey |-> r, flowsData |-> r,
     analysisResult |-> analysisResult]

\* lines 1421-1426: a successful /auth/callback stores the connection
ServerCallback ==
    /\ accessToken' = TRUE
    /\ UNCHANGED <<aiContext, requests, accumulators, sfQueries, aiCalls,
                   loggedOut>>
    /\ UNCHANGED <<authVars, fetchVars, credVars, streamVars, inputVars, runVars,
                   callVars, outVars>>

\* POST /auth/logout (lines 1838-1850)
Logout ==
    /\ accessToken' = FALSE
    /\ aiContext' = EmptyContext
    /\ loggedOut' = TRUE
    /\ requests' = [r \in Requests |->
                      IF requests[r].pc = "idle" THEN requests[r]
                      ELSE [requests[r] EXCEPT !.stale = TRUE]]
    /\ UNCHANGED <<accumulators, sfQueries, aiCalls>>
    /\ UNCHANGED <<authVars, fetchVars, credVars, streamVars, inputVars, runVars,
                   callVars, outVars>>

\* a route handler from its first statement to its first await or to its
\* answer: valid tells whether the required body parameters are present, n
\* is the number of records of flowsData and chunked the strategy that
\* performAIAnalysis chooses for them
Receive(r, e, valid, chunked, n) ==
    /\ requests[r].pc = "idle"
    \* requests are numbered in the order of their arrival
    /\ \A q \in 1..(r - 1) : requests[q].pc # "idle"
    /\ LET req == Received(e)
           waiting == [req EXCEPT !.pc = "await", !.i = 1]
           running == [waiting EXCEPT !.chunked = chunked, !.n = n]
       IN IF guarded(e) /\ ~accessToken
          THEN /\ requests' = [requests EXCEPT ![r] = answeredWith(req, 401, <<>>)]
               /\ UNCHANGED <<accumulators, sfQueries, aiCalls>>
          ELSE IF fetchesFlows(e)
          THEN /\ requests' = [requests EXCEPT ![r] = waiting]
               /\ sfQueries' = sfQueries \cup {r}
               /\ UNCHANGED <<accumulators, aiCalls>>
          ELSE IF e \in {"/api/instance", "/api/org-info"}
          THEN /\ requests' = [requests EXCEPT ![r] = answeredWith(req, 200, <<>>)]
               /\ UNCHANGED <<accumulators, sfQueries, aiCalls>>
          ELSE IF \/ ~valid
                  \/ /\ e = "/api/flows/chat"
                     /\ (aiContext.provider = NoValue \/ aiContext.apiKey = NoValue)
          THEN /\ requests' = [requests EXCEPT ![r] = answeredWith(req, 400, <<>>)]
               /\ UNCHANGED <<accumulators, sfQueries, aiCalls>>
          ELSE /\ requests' = [requests EXCEPT
                                  ![r] = IF e = "/api/flows/ai-analysis"
                                         THEN running ELSE waiting]
               /\ aiCalls' = aiCalls \cup {r}
               /\ accumulators' =
                     IF e = "/api/flows/ai-analysis" /\ chunked
                     THEN [accumulators EXCEPT ![accumulator(r)] = <<>>]
                     ELSE accumulators
               /\ UNCHANGED sfQueries
    /\ UNCHANGED <<accessToken, aiContext, loggedOut>>
    /\ UNCHANGED <<authVars, fetchVars, credVars, streamVars, inputVars, runVars,
                   callVars, outVars>>

\* the awaited call of an analysis request settles (lines 1597-1608 and
\* 1610-1658; performSingleAnalysis, performChunkedAnalysis)
AnalysisSettles(r, ok) ==
    /\ requests[r].pc = "await"
    /\ requests[r].endpoint = "/api/flows/ai-analysis"
    /\ LET req == requests[r]
           acc == accumulators[accumulator(r)]
       IN IF ~req.chunked
          THEN IF ok
               THEN LET res == [k \in 1..req.n |-> entryOf(r, k)]
                    IN /\ aiContext' = storeContext(aiContext, r, res)
                       /\ requests' = [requests EXCEPT
                                          ![r] = answeredWith(req, 200, res)]
                       /\ UNCHANGED accumulators
               ELSE /\ requests' = [requests EXCEPT
                                       ![r] = answeredWith(req, 500, <<>>)]
                    /\ UNCHANGED <<aiContext, accumulators>>
          ELSE IF req.i <= req.n
          THEN \* a chunk: its entries, or its placeholders, are pushed
               /\ accumulators' =
                     [accumulators EXCEPT ![accumulator(r)] =
                         Append(acc, entryOf(r, req.i))]
               /\ requests' = [requests EXCEPT ![r].i = req.i + 1]
               /\ UNCHANGED aiContext
          ELSE \* the organization-level call: both outcomes return
               /\ aiContext' = storeContext(aiContext, r, acc)
               /\ requests' = [requests EXCEPT ![r] = answeredWith(req, 200, acc)]
               /\ UNCHANGED accumulators
    /\ UNCHANGED <<accessToken, sfQueries, aiCalls, loggedOut>>
    /\ UNCHANGED <<authVars, fetchVars, credVars, streamVars, inputVars, runVars,
                   callVars, outVars>>

\* the awaited call of any other request settles
OtherSettles(r, ok) ==
    /\ requests[r].pc = "await"
    /\ requests[r].endpoint # "/api/flows/ai-analysis"
    /\ requests' = [requests EXCEPT
                      ![r] = answeredWith(requests[r],
                                          IF ok THEN 200 ELSE 500, <<>>)]
    /\ UNCHANGED <<accessToken, aiContext, accumulators, sfQueries, aiCalls,
                   loggedOut>>
    /\ UNCHANGED <<authVars, fetchVars, credVars, streamVars, inputVars, runVars,
                   callVars, outVars>>

\* a connection is stored and no request was received
ServerIdle ==
    /\ accessToken = TRUE
    /\ aiContext = EmptyContext
    /\ requests = [r \in Requests |-> NotReceived]
    /\ accumulators = [r \in Requests |-> <<>>]
    /\ sfQueries = {}
    /\ aiCalls = {}
    /\ loggedOut = FALSE

---------------------------------------------------------------------------
(* Temporary Connected App credentials (lines 34, 1289-1335, 1397-1431)     *)

MaxSessions == 2   \* /auth/set-credentials requests
MaxLogins   == 2   \* /auth/salesforce and /auth/callback requests
MaxElapses  == 2   \* times the clock is advanced

\* 10 * 60 * 1000 (line 1306)
TEN_MINUTES == 600000

\* the time at which the server starts
START_TIME == 1000

\* the credentials of the environment (lines 1328-1329, 1416)
ENV_CREDENTIALS == 0

\* tempCredentials[id] = {...} (lines 1299-1303): an entry under the same id
\* is replaced
putCredentials(store, id, owner) ==
    {e \in store : e.id # id}
        \cup {[id |-> id, owner |-> owner, timestamp |-> id]}

\* the entries are never dropped
cleanUpNothing(store, t) == store

\* lines 1305-1309
cleanUp(store, t) == {e \in store : ~(t - e.timestamp > TEN_MINUTES)}

\* tempCredentials[sessionId], when present
entriesOf(store, sessionId) == {e \in store : e.id = sessionId}

\* the credentials a login request works with, and their age
usedBy(route, store, sessionId, t) ==
    IF entriesOf(store, sessionId) = {}
    THEN [route |-> route, sessionId |-> sessionId, owner |-> ENV_CREDENTIALS,
          age |-> 0, connected |-> FALSE]
    ELSE LET e == CHOOSE x \in entriesOf(store, sessionId) : TRUE
         IN [route |-> route, sessionId |-> sessionId, owner |-> e.owner,
             age |-> t - e.timestamp, connected |-> FALSE]

\* POST /auth/set-credentials (lines 1290-1313)
SetCredentials(valid) ==
    /\ Len(issued) < MaxSessions
    /\ IF ~valid
       THEN UNCHANGED <<credentialStore, issued>>
       ELSE /\ credentialStore' =
                  cleanUp(putCredentials(credentialStore, now, Len(issued) + 1),
                          now)
            /\ issued' = Append(issued, now)
    /\ UNCHANGED <<now, credentialUses, elapses>>
    /\ UNCHANGED <<authVars, fetchVars, serverVars, streamVars, inputVars,
                   runVars, callVars, outVars>>

\* GET /auth/salesforce?sessionId=... (lines 1316-1335)
LoginWithSession(sessionId) ==
    /\ Len(credentialUses) < MaxLogins
    /\ credentialUses' =
          Append(credentialUses,
                 usedBy("/auth/salesforce", credentialStore, sessionId, now))
    /\ UNCHANGED <<now, credentialStore, issued, elapses>>
    /\ UNCHANGED <<authVars, fetchVars, serverVars, streamVars, inputVars,
                   runVars, callVars, outVars>>

\* GET /auth/callback with the session id in its state (lines 1397-1431):
\* conn.authorize resolves (ok) or rejects
CallbackWithSession(sessionId, ok) ==
    /\ Len(credentialUses) < MaxLogins
    /\ credentialUses' =
          Append(credentialUses,
                 [usedBy("/auth/callback", credentialStore, sessionId, now)
                     EXCEPT !.connected = ok])
    /\ credentialStore' = IF ok
                          THEN credentialStore \ entriesOf(credentialStore,
                                                            sessionId)
                          ELSE credentialStore
    /\ UNCHANGED <<now, issued, elapses>>
    /\ UNCHANGED <<authVars, fetchVars, serverVars, streamVars, inputVars,
                   runVars, callVars, outVars>>

\* time passes between two requests: a millisecond, or ten minutes
Elapse(d) ==
    /\ elapses < MaxElapses
    /\ now' = now + d
    /\ elapses' = elapses + 1
    /\ UNCHANGED <<credentialStore, issued, credentialUses>>
    /\ UNCHANGED <<authVars, fetchVars, serverVars, streamVars, inputVars,
                   runVars, callVars, outVars>>

\* line 34: let tempCredentials = {}
NoSessions ==
    /\ now = START_TIME
    /\ credentialStore = {}
    /\ issued = <<>>
    /\ credentialUses = <<>>
    /\ elapses = 0

---------------------------------------------------------------------------
(* Progress stream: GET /api/flows/progress (lines 1465-1520) and           *)
(* getFlowsDataWithProgress (lines 1045-1217)                               *)

MaxStreamFlows == 3   \* flows the basic query returns
MaxHeartbeats  == 2   \* times the heartbeat interval fires

\* an event handed to res.write; connected is a history field: whether the
\* client still held the connection at that moment
event(type, percent) ==
    [type |-> type, percent |-> percent, connected |-> clientConnected]

NoPercent == -1

\* line 1081: Math.round(10 + (i / basicFlows.length) * 80)
percentOf(k, n) == (2 * (10 * n + 80 * k) + n) \div (2 * n)

\* lines 1186-1217 and the then/catch of lines 1505-1519: the last progress
\* event, then 'complete', or 'error' when building the result throws
finish(events, built) ==
    events \o <<event("progress", 95),
                event(IF built THEN "complete" ELSE "error", NoPercent)>>

\* the top of the loop of lines 1079-1089 for flow k (0-based) of n, or the
\* code after the loop
Iteration(events, k, n, built) ==
    IF k < n
    THEN /\ stream' = Append(events, event("progress", percentOf(k, n)))
         /\ flowIndex' = k
         /\ streamPc' = "flow"
         /\ UNCHANGED <<heartbeatTimer, resFinished>>
    ELSE /\ stream' = finish(events, built)
         /\ flowIndex' = k
         /\ streamPc' = "done"
         /\ heartbeatTimer' = FALSE
         /\ resFinished' = TRUE

\* the route handler (lines 1466-1503) and getFlowsDataWithProgress up to
\* its first await (lines 1046-1064)
OpenStream ==
    /\ streamPc = "idle"
    /\ IF ~accessToken
       THEN /\ streamPc' = "refused"
            /\ UNCHANGED <<stream, heartbeatTimer>>
       ELSE /\ stream' = <<event("init", NoPercent), event("progress", 0)>>
            /\ heartbeatTimer' = TRUE
            /\ streamPc' = "basic_query"
    /\ UNCHANGED <<flowCount, flowIndex, resFinished, clientConnected,
                   heartbeats>>
    /\ UNCHANGED <<authVars, fetchVars, serverVars, credVars, inputVars,
                   runVars, callVars, outVars>>

\* the basic query settles (lines 1064-1076): it returns n flows, or it
\* rejects and the catch of lines 1512-1519 ends the stream
BasicQuerySettles(ok, n, built) ==
    /\ streamPc = "basic_query"
    /\ IF ok
       THEN /\ flowCount' = n
            /\ Iteration(Append(stream, event("progress", 10)), 0, n, built)
       ELSE /\ stream' = Append(stream, event("error", NoPercent))
            /\ streamPc' = "done"
            /\ heartbeatTimer' = FALSE
            /\ resFinished' = TRUE
            /\ UNCHANGED <<flowCount, flowIndex>>
    /\ UNCHANGED <<clientConnected, heartbeats>>
    /\ UNCHANGED <<authVars, fetchVars, serverVars, credVars, inputVars,
                   runVars, callVars, outVars>>

\* the request for the metadata of one flow settles (lines 1102-1150): it is
\* followed by the pause of line 1161, or, when it fails, by the catch of
\* lines 1163-1183 and the next iteration
FlowSettles(ok, built) ==
    /\ streamPc = "flow"
    /\ IF ok
       THEN /\ streamPc' = "pause"
            /\ UNCHANGED <<stream, flowIndex, heartbeatTimer, resFinished>>
       ELSE Iteration(stream, flowIndex + 1, flowCount, built)
    /\ UNCHANGED <<flowCount, clientConnected, heartbeats>>
    /\ UNCHANGED <<authVars, fetchVars, serverVars, credVars, inputVars,
                   runVars, callVars, outVars>>

\* the pause of line 1161 is over
PauseElapsed(built) ==
    /\ streamPc = "pause"
    /\ Iteration(stream, flowIndex + 1, flowCount, built)
    /\ UNCHANGED <<flowCount, clientConnected, heartbeats>>
    /\ UNCHANGED <<authVars, fetchVars, serverVars, credVars, inputVars,
                   runVars, callVars, outVars>>

\* the interval callback of lines 1487-1491
Heartbeat ==
    /\ heartbeatTimer
    /\ heartbeats < MaxHeartbeats
    /\ heartbeats' = heartbeats + 1
    /\ stream' = IF resFinished THEN stream
                 ELSE Append(stream, event("heartbeat", NoPercent))
    /\ UNCHANGED <<streamPc, flowCount, flowIndex, heartbeatTimer, resFinished,
                   clientConnected>>
    /\ UNCHANGED <<authVars, fetchVars, serverVars, credVars, inputVars,
                   runVars, callVars, outVars>>

\* req.on('close') (lines 1494-1497)
ClientDisconnects ==
    /\ streamPc \notin {"idle", "refused"}
    /\ clientConnected
    /\ clientConnected' = FALSE
    /\ heartbeatTimer' = FALSE
    /\ UNCHANGED <<stream, streamPc, flowCount, flowIndex, resFinished,
                   heartbeats>>
    /\ UNCHANGED <<authVars, fetchVars, serverVars, credVars, inputVars,
                   runVars, callVars, outVars>>

\* no request to /api/flows/progress was received
StreamClosed ==
    /\ stream = <<>>
    /\ streamPc = "idle"
    /\ flowCount = 0
    /\ flowIndex = 0
    /\ heartbeatTimer = FALSE
    /\ resFinished = FALSE
    /\ clientConnected = TRUE
    /\ heartbeats = 0

---------------------------------------------------------------------------
(* Analysis endpoint                                                       *)

\* the state of a request that has not been handled yet
Fresh ==
    /\ pc = "idle"
    /\ strategy = "none"
    /\ chunks = <<>>
    /\ i = 1
    /\ allFlowAnalyses = <<>>
    /\ chunkStatus = <<>>
    /\ phase = "none"
    /\ calls = <<>>
    /\ callState = "none"
    /\ retryCount = 0
    /\ attempts = 0
    /\ sleeps = 0
    /\ overloads = 0
    /\ waitTime = 0
    /\ callStatus = 0
    /\ analysisText = NoText
    /\ result = NoResult
    /\ httpStatus = 0

Init ==
    /\ provider \in Providers
    /\ apiKeyIsAIza \in (IF provider = "gemini" THEN BOOLEAN ELSE {FALSE})
    /\ flowsData \in {NoData} \cup [metaSize : MetaSizes, flows : FlowLists]
    /\ Fresh
    /\ ServerIdle
    /\ NoSessions
    /\ StreamClosed
    /\ Connected
    /\ NothingFetched

\* the statements of a call up to its first await: the request is sent, or
\* the call throws at once
SendRequest ==
    /\ callState' = "inflight"
    /\ retryCount' = 0
    /\ attempts' = 1
    /\ sleeps' = 0
    /\ overloads' = 0
    /\ waitTime' = 0
    /\ callStatus' = 0

ThrowAtOnce ==
    /\ callState' = "threw"
    /\ retryCount' = 0
    /\ attempts' = 0
    /\ sleeps' = 0
    /\ overloads' = 0
    /\ waitTime' = 0
    /\ callStatus' = 0

\* POST /api/flows/ai-analysis (lines 1591-1599) and performAIAnalysis
\* (lines 346-363), with the chunk planning of lines 398-425
Begin ==
    /\ pc = "idle"
    /\ IF provider = "" \/ flowsData = NoData
       THEN /\ pc' = "replied"
            /\ httpStatus' = 400
            /\ UNCHANGED <<flowsData, strategy, chunks, chunkStatus>>
       ELSE LET chunked == shouldChunk(compactSize(flowsData),
                                       Len(flowsData.flows))
                plan == IF chunked THEN planChunks(flowsData.flows) ELSE <<>>
            IN /\ strategy' = IF chunked THEN "chunked" ELSE "single"
               /\ chunks' = plan
               /\ chunkStatus' = [k \in 1..Len(plan) |-> "Pending"]
               /\ pc' = IF chunked THEN "chunk_loop" ELSE "single_issue"
               /\ flowsData' = IF chunked
                               THEN [flowsData EXCEPT
                                       !.flows = flowsAfterPlanning(@)]
                               ELSE flowsData
               /\ UNCHANGED httpStatus
    /\ UNCHANGED <<orgVars, provider, apiKeyIsAIza, i, allFlowAnalyses, phase,
                   calls, callVars, analysisText, result>>

\* performSingleAnalysis, lines 366-384
SingleIssue ==
    /\ pc = "single_issue"
    /\ phase' = "single"
    /\ calls' = Append(calls, "single")
    /\ IF throwsBeforeRequest(provider, apiKeyIsAIza)
       THEN /\ ThrowAtOnce
            /\ pc' = "replied"
            /\ httpStatus' = statusCode(0)
       ELSE /\ SendRequest
            /\ pc' = "await"
            /\ UNCHANGED httpStatus
    /\ UNCHANGED <<orgVars, inputVars, strategy, chunks, i, allFlowAnalyses,
                   chunkStatus, analysisText, result>>

\* the catch block of lines 504-514, and the loop's next iteration
ChunkFailed ==
    /\ allFlowAnalyses' = allFlowAnalyses \o placeholders(chunks[i])
    /\ chunkStatus' = [chunkStatus EXCEPT ![i] = "FailedIsolated"]
    /\ i' = i + 1
    /\ pc' = "chunk_loop"

\* the head of the chunk loop (lines 432-490)
ChunkIssue ==
    /\ pc = "chunk_loop"
    /\ i <= Len(chunks)
    /\ phase' = "chunk"
    /\ calls' = Append(calls, "chunk")
    /\ IF throwsBeforeRequest(provider, apiKeyIsAIza)
       THEN /\ ThrowAtOnce
            /\ ChunkFailed
       ELSE /\ SendRequest
            /\ chunkStatus' = [chunkStatus EXCEPT ![i] = "InFlight"]
            /\ pc' = "await"
            /\ UNCHANGED <<i, allFlowAnalyses>>
    /\ UNCHANGED <<orgVars, inputVars, strategy, chunks, outVars>>

OrgIssueEarly ==
    /\ pc = "chunk_loop"
    /\ phase' = "org"
    /\ calls' = Append(calls, "org")
    /\ IF throwsBeforeRequest(provider, apiKeyIsAIza)
       THEN /\ ThrowAtOnce
            /\ result' = fallbackResult(flowsData.flows, allFlowAnalyses)
            /\ httpStatus' = 200
            /\ pc' = "replied"
       ELSE /\ SendRequest
            /\ pc' = "await"
            /\ UNCHANGED <<result, httpStatus>>
    /\ UNCHANGED <<orgVars, inputVars, strategy, chunks, i, allFlowAnalyses,
                   chunkStatus, analysisText>>

\* lines 517-568, and the catch of 581-589 when the call throws at once
OrgIssue ==
    /\ pc = "chunk_loop"
    /\ i > Len(chunks)
    /\ phase' = "org"
    /\ calls' = Append(calls, "org")
    /\ IF throwsBeforeRequest(provider, apiKeyIsAIza)
       THEN /\ ThrowAtOnce
            /\ result' = fallbackResult(flowsData.flows, allFlowAnalyses)
            /\ httpStatus' = 200
            /\ pc' = "replied"
       ELSE /\ SendRequest
            /\ pc' = "await"
            /\ UNCHANGED <<result, httpStatus>>
    /\ UNCHANGED <<orgVars, inputVars, strategy, chunks, i, allFlowAnalyses,
                   chunkStatus, analysisText>>

\* what follows a call that returned a text
OnText(text) ==
    CASE phase = "single" ->
           /\ result' = parseAIAnalysis(text, flowsData.flows)
           /\ httpStatus' = 200
           /\ pc' = "replied"
           /\ UNCHANGED <<i, allFlowAnalyses, chunkStatus>>
      [] phase = "chunk" ->
           /\ allFlowAnalyses' = allFlowAnalyses
                 \o parseAIAnalysis(text, chunks[i]).flowAnalysis
           /\ chunkStatus' = [chunkStatus EXCEPT ![i] = "Succeeded"]
           /\ IF i < Len(chunks)
              THEN pc' = "chunk_delay" /\ i' = i
              ELSE pc' = "chunk_loop" /\ i' = i + 1
           /\ UNCHANGED <<result, httpStatus>>
      [] phase = "org" ->
           /\ result' = combinedResult(parseAIAnalysis(text, flowsData.flows),
                                       allFlowAnalyses)
           /\ httpStatus' = 200
           /\ pc' = "replied"
           /\ UNCHANGED <<i, allFlowAnalyses, chunkStatus>>

OnFailureRethrown(status) ==
    /\ httpStatus' = statusCode(status)
    /\ pc' = "replied"
    /\ UNCHANGED <<i, allFlowAnalyses, chunkStatus, result>>

\* what follows a call that threw, or returned no text
OnFailure(status) ==
    CASE phase = "single" ->
           /\ httpStatus' = statusCode(status)
           /\ pc' = "replied"
           /\ UNCHANGED <<i, allFlowAnalyses, chunkStatus, result>>
      [] phase = "chunk" ->
           /\ ChunkFailed
           /\ UNCHANGED <<result, httpStatus>>
      [] phase = "org" ->
           /\ result' = fallbackResult(flowsData.flows, allFlowAnalyses)
           /\ httpStatus' = 200
           /\ pc' = "replied"
           /\ UNCHANGED <<i, allFlowAnalyses, chunkStatus>>

\* the provider answers 200 with a text
RespondTextFrom(texts) ==
    /\ pc = "await" /\ callState = "inflight"
    /\ \E text \in texts :
          /\ analysisText' = text
          /\ OnText(text)
    /\ callState' = "returned"
    /\ callStatus' = 200
    /\ UNCHANGED <<orgVars, inputVars, calls, strategy, chunks, phase, retryCount, attempts,
                   sleeps, overloads, waitTime>>

\* the records the pending prompt is about (lines 366, 434 and 518)
currentBatch == IF phase = "chunk" THEN chunks[i] ELSE flowsData.flows

\* a prompt, by what its text holds: the record counts it states, the
\* display names it lists and the data serialized after "Flow data:"
\* AI_ANALYSIS_PROMPT + JSON.stringify(flowsData) (line 366): the fixed text
\* of lines 37-65 names neither a count nor a record
singlePrompt(fd) ==
    [counts |-> <<>>, names |-> <<>>, data |-> fd]

\* chunkData (lines 436-439)
chunkData(fd, chunk) == [metaSize |-> fd.metaSize, flows |-> chunk]

\* flowAnalysisPrompt (lines 441-469): ${chunk.length} at lines 441, 455
\* and 466, the joined names at line 466, chunkData at line 469
flowAnalysisPrompt(fd, chunk) ==
    [counts |-> <<Len(chunk), Len(chunk), Len(chunk)>>,
     names  |-> [k \in 1..Len(chunk) |-> chunk[k].name],
     data   |-> chunkData(fd, chunk)]

\* the prompt of the pending record-analysis request
prompt ==
    IF phase = "chunk" THEN flowAnalysisPrompt(flowsData, chunks[i])
    ELSE singlePrompt(flowsData)

RespondText ==
    RespondTextFrom(IF phase = "org" THEN OrgAnswers
                    ELSE AnswersFor(currentBatch))

\* the provider answers 200 without a text where the client reads it
RespondNoText ==
    /\ pc = "await" /\ callState = "inflight"
    /\ OnFailure(0)
    /\ callState' = "threw"
    /\ callStatus' = 200
    /\ UNCHANGED <<orgVars, inputVars, calls, strategy, chunks, phase, retryCount, attempts,
                   sleeps, overloads, waitTime, analysisText>>

\* the provider answers with an error status: callClaude's catch (lines
\* 113-125) sleeps and retries, every other path throws to the caller
RespondError ==
    /\ pc = "await" /\ callState = "inflight"
    /\ \E status \in ErrorStatuses :
          /\ callStatus' = status
          /\ overloads' = IF status = 529 THEN overloads + 1 ELSE overloads
          /\ IF shouldRetry(provider, status, retryCount)
             THEN /\ callState' = "backoff"
                  /\ waitTime' = backoffWait(retryCount)
                  /\ sleeps' = sleeps + 1
                  /\ UNCHANGED <<pc, i, allFlowAnalyses, chunkStatus, result,
                                 httpStatus>>
             ELSE /\ callState' = "threw"
                  /\ OnFailure(surfacedStatus(provider, status))
                  /\ UNCHANGED <<waitTime, sleeps>>
    /\ UNCHANGED <<orgVars, inputVars, calls, strategy, chunks, phase, retryCount, attempts,
                   analysisText>>

\* the backoff sleep of line 121 is over: line 122 calls callClaude again
BackoffElapsed ==
    /\ pc = "await" /\ callState = "backoff"
    /\ attempts < MaxAttempts
    /\ callState' = "inflight"
    /\ retryCount' = retryCount + 1
    /\ attempts' = attempts + 1
    /\ UNCHANGED <<orgVars, inputVars, runVars, sleeps, overloads, waitTime, callStatus,
                   outVars>>

\* no answer came within the timeout of the request: axios rejects with an
\* error that has no response, which no retry branch matches
TimeoutElapsed ==
    /\ pc = "await" /\ callState = "inflight"
    /\ timeout(provider) > 0
    /\ OnFailure(0)
    /\ callState' = "threw"
    /\ callStatus' = 0
    /\ UNCHANGED <<orgVars, inputVars, calls, strategy, chunks, phase, retryCount, attempts,
                   sleeps, overloads, waitTime, analysisText>>

DelayElapsedNoAdvance ==
    /\ pc = "chunk_delay"
    /\ pc' = "chunk_loop"
    /\ UNCHANGED <<orgVars, inputVars, calls, strategy, chunks, i, allFlowAnalyses,
                   chunkStatus, phase, callVars, outVars>>

\* the inter-chunk delay of lines 499-502 is over
DelayElapsed ==
    /\ pc = "chunk_delay"
    /\ i' = i + 1
    /\ pc' = "chunk_loop"
    /\ UNCHANGED <<orgVars, inputVars, calls, strategy, chunks, allFlowAnalyses, chunkStatus,
                   phase, callVars, outVars>>

Next ==
    \/ Begin
    \/ SingleIssue
    \/ ChunkIssue
    \/ OrgIssue
    \/ RespondText
    \/ RespondNoText
    \/ RespondError
    \/ TimeoutElapsed
    \/ BackoffElapsed
    \/ DelayElapsed

Spec == Init /\ [][Next]_vars

\* every pending provider call is answered, every timer fires and the
\* handler runs on after each of them
\* RecordSets whose records are all trivial (single-shot) or all larger
\* than maxChunkSize (one chunk per record)
UniformFlowLists ==
    {fl \in FlowLists : \A j, k \in 1..Len(fl) : fl[j].size = fl[k].size}

InitLive ==
    /\ provider \in Providers
    /\ apiKeyIsAIza \in (IF provider = "gemini" THEN BOOLEAN ELSE {FALSE})
    /\ flowsData \in {NoData} \cup [metaSize : MetaSizes, flows : UniformFlowLists]
    /\ Fresh
    /\ ServerIdle
    /\ NoSessions
    /\ StreamClosed
    /\ Connected
    /\ NothingFetched

SpecLive == InitLive /\ [][Next]_vars /\ WF_vars(Next)

\* the provider may stay silent: only the steps of the program itself, its
\* timers included, are sure to happen
ProgramSteps ==
    \/ Begin
    \/ SingleIssue
    \/ ChunkIssue
    \/ OrgIssue
    \/ TimeoutElapsed
    \/ BackoffElapsed
    \/ DelayElapsed

SpecWait == InitLive /\ [][Next]_vars /\ WF_vars(ProgramSteps)


---------------------------------------------------------------------------
(* Specification of the selector and the planner alone: the request is     *)
(* taken up to the end of chunk planning.                                  *)

InitBegin ==
    /\ provider = "openai"
    /\ apiKeyIsAIza = FALSE
    /\ flowsData \in {NoData}
          \cup [metaSize : PlanMetaSizes, flows : PlanFlowLists]
          \cup [metaSize : SelectMetaSizes, flows : SelectFlowLists]
    /\ Fresh
    /\ ServerIdle
    /\ NoSessions
    /\ StreamClosed
    /\ Connected
    /\ NothingFetched

SpecBegin == InitBegin /\ [][Begin]_vars

(* Specification of the parser alone: performSingleAnalysis awaits the     *)
(* answer to its request, and the answer is any text of ParseTexts.        *)

InitParse ==
    /\ provider = "openai"
    /\ apiKeyIsAIza = FALSE
    /\ flowsData \in [metaSize : MetaSizes, flows : ParseFlowLists]
    /\ pc = "await"
    /\ strategy = "single"
    /\ chunks = <<>>
    /\ i = 1
    /\ allFlowAnalyses = <<>>
    /\ chunkStatus = <<>>
    /\ phase = "single"
    /\ calls = <<"single">>
    /\ callState = "inflight"
    /\ retryCount = 0
    /\ attempts = 1
    /\ sleeps = 0
    /\ overloads = 0
    /\ waitTime = 0
    /\ callStatus = 0
    /\ analysisText = NoText
    /\ result = NoResult
    /\ httpStatus = 0
    /\ ServerIdle
    /\ NoSessions
    /\ StreamClosed
    /\ Connected
    /\ NothingFetched

RespondParseText == RespondTextFrom(ParseTexts)

SpecParse == InitParse /\ [][RespondParseText]_vars

---------------------------------------------------------------------------
(* Specification of the OAuth login alone: one login, from the request of  *)
(* /auth/salesforce to the answer of /auth/callback.                        *)

InitAuth ==
    /\ isSandbox \in BOOLEAN
    /\ envLoginUrl \in BOOLEAN
    /\ envSandboxUrl \in BOOLEAN
    /\ tempCredentials \in BOOLEAN
    /\ envCredentials \in BOOLEAN
    /\ authPc = "start"
    /\ authorizeUrl = NoUrl
    /\ tokenUrl = NoUrl
    /\ authStatus = 0
    /\ provider = ""
    /\ apiKeyIsAIza = FALSE
    /\ flowsData = NoData
    /\ Fresh
    /\ ServerIdle
    /\ NoSessions
    /\ StreamClosed
    /\ NothingFetched

NextAuth ==
    \/ StartLogin
    \/ CredentialsExpire
    \/ Callback

SpecAuth == InitAuth /\ [][NextAuth]_vars

---------------------------------------------------------------------------
(* Specification of the latest-version filter alone: any list of up to     *)
(* MaxVersions fetched versions is filtered.                                *)

Labels    == {NoLabel, "A"}
FullNames == {"A", "B"}
Dates     == {1, 2}
Versions  ==
    {Version(l, n, d, a) : l \in Labels, n \in FullNames, d \in Dates,
                           a \in BOOLEAN}

InitFilter ==
    /\ flowDetails \in SeqsUpTo(Versions, MaxVersions)
    /\ latestFlows = <<>>
    /\ fetchPc = "fetched"
    /\ provider = ""
    /\ apiKeyIsAIza = FALSE
    /\ flowsData = NoData
    /\ Fresh
    /\ ServerIdle
    /\ NoSessions
    /\ StreamClosed
    /\ Connected

SpecFilter == InitFilter /\ [][ApplyFilter]_vars

---------------------------------------------------------------------------
(* Specification of the HTTP server: requests arrive at any time, their    *)
(* awaits interleave, and logins and logouts happen in between.            *)

InitServer ==
    /\ accessToken = FALSE
    /\ aiContext = EmptyContext
    /\ requests = [r \in Requests |-> NotReceived]
    /\ accumulators = [r \in Requests |-> <<>>]
    /\ sfQueries = {}
    /\ aiCalls = {}
    /\ loggedOut = FALSE
    /\ NoSessions
    /\ StreamClosed
    /\ provider = ""
    /\ apiKeyIsAIza = FALSE
    /\ flowsData = NoData
    /\ Fresh
    /\ Connected
    /\ NothingFetched

\* the inputs of a request: only the analysis endpoint looks at the records
RequestInputs(e) ==
    IF e = "/api/flows/ai-analysis"
    THEN [valid : BOOLEAN, chunked : BOOLEAN, n : 1..MaxRunRecords]
    ELSE IF e \in {"/api/flows/chat", "/api/chat/flows"}
    THEN [valid : BOOLEAN, chunked : {FALSE}, n : {0}]
    ELSE [valid : {TRUE}, chunked : {FALSE}, n : {0}]

NextServer ==
    \/ ServerCallback
    \/ Logout
    \/ \E r \in Requests, e \in Endpoints :
          \E in \in RequestInputs(e) : Receive(r, e, in.valid, in.chunked, in.n)
    \/ \E r \in Requests, ok \in BOOLEAN : AnalysisSettles(r, ok)
    \/ \E r \in Requests, ok \in BOOLEAN : OtherSettles(r, ok)

SpecServer == InitServer /\ [][NextServer]_vars

---------------------------------------------------------------------------
(* Specification of the temporary credentials: set-credentials and login    *)
(* requests arrive at any time, and time passes between them.              *)

InitCredentials ==
    /\ NoSessions
    /\ StreamClosed
    /\ ServerIdle
    /\ provider = ""
    /\ apiKeyIsAIza = FALSE
    /\ flowsData = NoData
    /\ Fresh
    /\ Connected
    /\ NothingFetched

Range(f) == {f[k] : k \in DOMAIN f}

NextCredentials ==
    \/ \E valid \in BOOLEAN : SetCredentials(valid)
    \/ \E sessionId \in Range(issued) : LoginWithSession(sessionId)
    \/ \E sessionId \in Range(issued), ok \in BOOLEAN :
          CallbackWithSession(sessionId, ok)
    \/ \E d \in {1, TEN_MINUTES} : Elapse(d)

SpecCredentials == InitCredentials /\ [][NextCredentials]_vars

---------------------------------------------------------------------------
(* Specification of the progress stream: one request to                     *)
(* /api/flows/progress, the retrieval it starts, the heartbeat timer and    *)
(* the client, which may leave at any time.                                 *)

InitProgress ==
    /\ accessToken \in BOOLEAN
    /\ aiContext = EmptyContext
    /\ requests = [r \in Requests |-> NotReceived]
    /\ accumulators = [r \in Requests |-> <<>>]
    /\ sfQueries = {}
    /\ aiCalls = {}
    /\ loggedOut = FALSE
    /\ NoSessions
    /\ StreamClosed
    /\ provider = ""
    /\ apiKeyIsAIza = FALSE
    /\ flowsData = NoData
    /\ Fresh
    /\ Connected
    /\ NothingFetched

NextProgress ==
    \/ OpenStream
    \/ \E ok \in BOOLEAN, n \in 0..MaxStreamFlows, built \in BOOLEAN :
          BasicQuerySettles(ok, n, built)
    \/ \E ok \in BOOLEAN, built \in BOOLEAN : FlowSettles(ok, built)
    \/ \E built \in BOOLEAN : PauseElapsed(built)
    \/ Heartbeat
    \/ ClientDisconnects

SpecProgress == InitProgress /\ [][NextProgress]_vars

---------------------------------------------------------------------------
(* Claims                                                                  *)

Answered == pc = "replied" /\ httpStatus = 200

\* an entry name and a record name match: one contains the other, ignoring case
NamesMatch(entryName, flowName) ==
    \/ includes(toLowerCase(entryName), toLowerCase(flowName))
    \/ includes(toLowerCase(flowName), toLowerCase(entryName))

MatchingRecords(entryName) ==
    {k \in 1..Len(flowsData.flows) : NamesMatch(entryName, flowsData.flows[k].name)}

\* C1: completeness invariant: the result of an analysis run over a
\* non-empty RecordSet has exactly as many flowAnalysis entries as the
\* RecordSet has records, whatever text the provider returned.
C1_Completeness ==
    (Answered /\ Len(flowsData.flows) > 0)
        => Len(result.flowAnalysis) = Len(flowsData.flows)

\* C2: every entry of the final result resolves to exactly one input record
\* by case-insensitive exact or substring match.
C2_EntryResolvesToOneRecord ==
    Answered =>
        \A k \in 1..Len(result.flowAnalysis) :
            Cardinality(MatchingRecords(result.flowAnalysis[k].name)) = 1

IsUnavailableFor(entry, flow) ==
    /\ entry.name = flow.name
    /\ entry.businessDescription.k = "unavailable"
    /\ entry.improvements.k = "unavailable"

C4_FailureIsolation ==
    [][(/\ pc = "chunk_loop" \/ (pc = "await" /\ phase = "chunk")
        /\ i <= Len(chunks)
        /\ chunkStatus'[i] = "FailedIsolated")
       => (/\ Len(allFlowAnalyses') = Len(allFlowAnalyses) + Len(chunks[i])
           /\ SubSeq(allFlowAnalyses', 1, Len(allFlowAnalyses)) = allFlowAnalyses
           /\ \A j \in 1..Len(chunks[i]) :
                 IsUnavailableFor(allFlowAnalyses'[Len(allFlowAnalyses) + j],
                                  chunks[i][j])
           /\ pc' = "chunk_loop"
           /\ i' = i + 1
           /\ chunks' = chunks)]_vars

C4_Witness ==
    /\ Len(chunks) = 3
    /\ chunkStatus = <<"Succeeded", "FailedIsolated", "Succeeded">>
    /\ \E k \in 1..Len(allFlowAnalyses) :
          IsUnavailableFor(allFlowAnalyses[k], chunks[2][1])

RECURSIVE TotalLen(_)
TotalLen(cs) == IF cs = <<>> THEN 0 ELSE Len(Head(cs)) + TotalLen(Tail(cs))

\* C5: every planned chunk is non-empty and has at most 2 records, and the
\* chunks partition the RecordSet: each record is in exactly one chunk, at
\* exactly one place.
C5_Partition ==
    strategy = "chunked" =>
        /\ \A c \in 1..Len(chunks) : Len(chunks[c]) \in 1..2
        /\ TotalLen(chunks) = Len(flowsData.flows)
        /\ \A k \in 1..Len(flowsData.flows) :
              Cardinality({<<c, j>> \in (1..Len(chunks)) \X (1..2) :
                              /\ j <= Len(chunks[c])
                              /\ chunks[c][j] = flowsData.flows[k]}) = 1

C5_Witness ==
    /\ strategy = "chunked"
    /\ Len(flowsData.flows) = 4
    /\ Len(chunks) = 3
    /\ \E c \in 1..Len(chunks) : Len(chunks[c]) = 2

\* C6: a chunk of more than one record costs at most 12000 in total, and a
\* record that costs more than 12000 on its own is alone in its chunk.
C6_CostBound ==
    strategy = "chunked" =>
        /\ \A c \in 1..Len(chunks) :
              Len(chunks[c]) = 1 \/ SumSizes(chunks[c]) <= 12000
        /\ \A k \in 1..Len(flowsData.flows) :
              flowsData.flows[k].size > 12000 =>
                  \E c \in 1..Len(chunks) : chunks[c] = <<flowsData.flows[k]>>

C6_Witness ==
    /\ strategy = "chunked"
    /\ \E c \in 1..Len(chunks) :
          Len(chunks[c]) = 1 /\ SumSizes(chunks[c]) > 12000
    /\ \E c \in 1..Len(chunks) :
          Len(chunks[c]) = 2 /\ SumSizes(chunks[c]) = 12000

\* C7: the chunked strategy is selected exactly when the serialized
\* RecordSet is longer than 100000 or holds more than 15 records.
C7_Selector ==
    strategy # "none" =>
        (strategy = "chunked"
            <=> (compactSize(flowsData) > 100000 \/ Len(flowsData.flows) > 15))

C7_Witness ==
    /\ strategy = "single"
    /\ Len(flowsData.flows) = 15
    /\ compactSize(flowsData) = 100000

NonOverloadStatuses == {400, 401, 403, 429}

\* C8: an answer 400, 401, 403 or 429 ends the call at once, for every
\* provider: it is followed by no retry and no backoff sleep, and when it
\* answers the first attempt the call has made exactly one attempt.
C8_OtherFailuresNotRetried ==
    callStatus \in NonOverloadStatuses =>
        /\ callState = "threw"
        /\ attempts = overloads + 1
        /\ sleeps = overloads
        /\ (overloads = 0 => (attempts = 1 /\ sleeps = 0))

C8_Witness ==
    /\ provider = "claude"
    /\ callState = "threw"
    /\ callStatus = 401
    /\ attempts = 1
    /\ sleeps = 0

\* C9: for every provider, an overload failure reaches the caller only
\* after the call retried with backoff.
C9_OverloadRetriedByEveryProvider ==
    (callState = "threw" /\ callStatus = 529) => sleeps >= 1

\* C10 (as stated): one complete() call makes at most 4 attempts.
C10_AtMostFourAttempts == attempts <= 4

\* C10 (amended): one complete() call makes at most 5 attempts, the first
\* one and 4 retries; when every attempt is answered with the overload code
\* the failure reaches the caller after the 5th; the call made for a chunk
\* stays within the same cap.
C10_AtMostFiveAttempts ==
    /\ attempts <= 5
    /\ retryCount <= 4
    /\ (callState = "threw" /\ callStatus = 529 /\ provider = "claude")
          => (attempts = 5 /\ overloads = 5 /\ sleeps = 4)
    /\ (callState = "backoff" => attempts <= 4)

C10_Witness ==
    /\ provider = "claude"
    /\ phase = "chunk"
    /\ callState = "threw"
    /\ callStatus = 529
    /\ attempts = 5
    /\ overloads = 5
    /\ chunkStatus[1] = "FailedIsolated"

Terminal(st) == st \in {"Succeeded", "FailedIsolated"}

\* C11: a chunked run terminates: whatever the provider answers, every
\* chunk ends Succeeded or FailedIsolated, the organization-level step is
\* executed and the request is answered with a result.
C11_ChunkedRunTerminates ==
    (strategy = "chunked")
        ~> (/\ pc = "replied"
            /\ phase = "org"
            /\ result # NoResult
            /\ i = Len(chunks) + 1
            /\ \A c \in 1..Len(chunks) : Terminal(chunkStatus[c]))

C11_Witness ==
    /\ pc = "replied" /\ strategy = "chunked" /\ result # NoResult
    /\ provider = "claude"
    /\ Len(chunks) = 3
    /\ \A c \in 1..3 : chunkStatus[c] = "FailedIsolated"
    /\ callStatus = 529 /\ attempts = 5

\* where chunk c stands when the loop is at chunk i
InOrder(c) ==
    IF c < i THEN Terminal(chunkStatus[c])
    ELSE IF c > i THEN chunkStatus[c] = "Pending"
    ELSE CASE pc = "chunk_loop"  -> chunkStatus[c] = "Pending"
           [] pc = "chunk_delay" -> chunkStatus[c] = "Succeeded"
           [] OTHER -> chunkStatus[c] = "InFlight" /\ phase = "chunk"

OneCallAtMost ==
    /\ Cardinality({c \in 1..Len(chunks) : chunkStatus[c] = "InFlight"}) <= 1
    /\ (callState \in {"inflight", "backoff"}) = (pc = "await")
    /\ (\E c \in 1..Len(chunks) : chunkStatus[c] = "InFlight")
           => (pc = "await" /\ phase = "chunk")

\* C12: a chunked run is strictly sequential: at most one call is pending
\* and the handler is suspended on it; the chunks before the current one
\* are Succeeded or FailedIsolated and those after it are Pending; a chunk
\* changes state only as the current one, from Pending to InFlight and from
\* InFlight to Succeeded or FailedIsolated (from Pending to FailedIsolated
\* when the call throws before it sends a request).
C12_StrictlySequential ==
    [][strategy = "chunked" =>
        /\ chunks' = chunks
        /\ i' \in {i, i + 1}
        /\ OneCallAtMost'
        /\ \A c \in 1..Len(chunks) :
              /\ InOrder(c)'
              /\ chunkStatus'[c] # chunkStatus[c] =>
                    /\ c = i
                    /\ \/ chunkStatus[c] = "Pending" /\ chunkStatus'[c] = "InFlight"
                       \/ chunkStatus[c] = "InFlight" /\ Terminal(chunkStatus'[c])
                       \/ /\ chunkStatus[c] = "Pending"
                          /\ chunkStatus'[c] = "FailedIsolated"
                          /\ throwsBeforeRequest(provider, apiKeyIsAIza)]_vars

C12_Witness ==
    /\ strategy = "chunked"
    /\ Len(chunks) = 3
    /\ i = 2
    /\ chunkStatus = <<"Succeeded", "InFlight", "Pending">>
    /\ callState = "backoff"

\* C13: whenever the call of a chunk that is not the last one completes, the
\* chunk ending Succeeded or FailedIsolated, the run waits for the
\* inter-chunk delay before it goes on to the next chunk's call.
C13_DelayAfterEveryChunk ==
    [][(/\ strategy = "chunked"
        /\ i < Len(chunks)
        /\ chunkStatus[i] = "InFlight"
        /\ Terminal(chunkStatus'[i]))
       => pc' = "chunk_delay"]_vars

\* C14: from the organization-level call on, the accumulator of the chunk
\* loop is left as it is, and the entry list of the answer is that
\* accumulator, whether the call succeeded or failed; when it failed the
\* three narrative fields are the fixed fallback texts, the overview
\* naming the record count only; when it succeeded they come from the
\* parsed answer.
C14_AggregatorKeepsEntries ==
    [][(strategy = "chunked" /\ phase' = "org") =>
        /\ allFlowAnalyses' = allFlowAnalyses
        /\ pc' = "replied" =>
              /\ httpStatus' = 200
              /\ result'.flowAnalysis = allFlowAnalyses
              /\ callState' = "threw" =>
                    /\ result'.organizationOverview
                          = FALLBACK_OVERVIEW(Len(flowsData.flows))
                    /\ result'.potentialRisks = FALLBACK_FIELD
                    /\ result'.organizationImprovements = FALLBACK_FIELD
              /\ callState' = "returned" =>
                    /\ result'.organizationOverview.src # "fallback"
                    /\ result'.organizationOverview
                          = parseAIAnalysis(analysisText', flowsData.flows)
                               .organizationOverview]_vars

C14_Witness ==
    /\ pc = "replied" /\ strategy = "chunked" /\ phase = "org"
    /\ callState = "threw" /\ callStatus = 429
    /\ Len(chunks) = 2
    /\ chunkStatus = <<"Succeeded", "FailedIsolated">>
    /\ Len(result.flowAnalysis) >= 2
    /\ result.organizationOverview.src = "fallback"

IsSynthesized(entry) == entry.businessDescription.k = "synthesized"

\* the entries parsed from the sections of the response
ParsedEntries == SelectSeq(result.flowAnalysis, LAMBDA e : ~IsSynthesized(e))

\* C15: after a response was parsed against a record list, every record
\* has an entry whose name matches its own (one contains the other,
\* ignoring case); a record that no parsed entry matches has exactly one
\* synthesized entry, which bears the record's name and whose description
\* is built from the record's ProcessType.
C15_ReconcilerCoverage ==
    Answered =>
        \A k \in 1..Len(flowsData.flows) :
            LET flow == flowsData.flows[k]
                own  == {j \in 1..Len(result.flowAnalysis) :
                            /\ IsSynthesized(result.flowAnalysis[j])
                            /\ result.flowAnalysis[j].name = flow.name}
            IN /\ \E j \in 1..Len(result.flowAnalysis) :
                     NamesMatch(result.flowAnalysis[j].name, flow.name)
               /\ ~isAnalyzed(flow.name, ParsedEntries) =>
                     /\ Cardinality(own) = 1
                     /\ \A j \in own :
                           result.flowAnalysis[j].businessDescription.type
                               = flow.ProcessType

\* of two records the response has a section for the second one only
C15_Witness ==
    /\ Answered
    /\ Len(flowsData.flows) = 2
    /\ Len(result.flowAnalysis) = 2
    /\ ~IsSynthesized(result.flowAnalysis[1])
    /\ result.flowAnalysis[1].name = flowsData.flows[2].name
    /\ IsSynthesized(result.flowAnalysis[2])
    /\ result.flowAnalysis[2].name = flowsData.flows[1].name
    /\ result.flowAnalysis[2].businessDescription.type = "AutoLaunchedFlow"

\* C16: the reconciliation step is idempotent: applied again to the entry
\* list it completed, with the same record list, it finds no missing record
\* and appends nothing.
C16_ReconcilerIdempotent ==
    Answered =>
        /\ missingFlowEntries(flowsData.flows, result.flowAnalysis) = <<>>
        /\ result.flowAnalysis
              \o missingFlowEntries(flowsData.flows, result.flowAnalysis)
           = result.flowAnalysis

\* the first application synthesized an entry for each of two records
C16_Witness ==
    /\ Answered
    /\ Len(flowsData.flows) = 2
    /\ Len(result.flowAnalysis) = 2
    /\ \A j \in 1..2 :
          /\ IsSynthesized(result.flowAnalysis[j])
          /\ result.flowAnalysis[j].name = flowsData.flows[j].name

\* the response is one "###" section per record, in the records' order,
\* each named after its record and holding both labeled lines
OneSectionPerRecord ==
    /\ analysisText # NoText
    /\ analysisText.h2s = <<>>
    /\ analysisText.lead = 0
    /\ Len(analysisText.blocks) = Len(flowsData.flows)
    /\ \A k \in 1..Len(flowsData.flows) :
          /\ analysisText.blocks[k].name = flowsData.flows[k].name
          /\ analysisText.blocks[k].d >= 0
          /\ analysisText.blocks[k].m >= 0

\* C17: when the response is one "### <name>" section per record with the
\* lines "**Business Description:** <d>" and "**Improvement
\* Opportunities:** <i>", the entries are, record by record, the name with
\* businessDescription = <d> and improvements = <i>.
C17_LabeledFieldsExtracted ==
    (Answered /\ strategy = "single" /\ OneSectionPerRecord) =>
        /\ Len(result.flowAnalysis) = Len(flowsData.flows)
        /\ \A k \in 1..Len(flowsData.flows) :
              result.flowAnalysis[k] =
                 [name |-> flowsData.flows[k].name,
                  businessDescription |->
                     [k |-> "labeled", len |-> analysisText.blocks[k].d],
                  improvements |->
                     [k |-> "labeled", len |-> analysisText.blocks[k].m]]

\* record k has a section of its own in the response
HasSection(k) ==
    \E b \in 1..Len(analysisText.blocks) :
        analysisText.blocks[b].name = flowsData.flows[k].name

\* the response holds well-formed sections for some of the records and
\* nothing about the others
SomeRecordsOmitted ==
    /\ analysisText # NoText
    /\ analysisText.h2s = <<>>
    /\ \A b \in 1..Len(analysisText.blocks) :
          /\ analysisText.blocks[b].d >= 0
          /\ analysisText.blocks[b].m >= 0
          /\ \E k \in 1..Len(flowsData.flows) :
                analysisText.blocks[b].name = flowsData.flows[k].name
          /\ \A c \in 1..Len(analysisText.blocks) :
                analysisText.blocks[c].name = analysisText.blocks[b].name
                   => c = b
    /\ \E k \in 1..Len(flowsData.flows) : HasSection(k)
    /\ \E k \in 1..Len(flowsData.flows) : ~HasSection(k)

EntriesNamed(name) ==
    {j \in 1..Len(result.flowAnalysis) : result.flowAnalysis[j].name = name}

\* C18: when the response has a well-formed section for some records and
\* omits the others, the result has one entry per record: parsed from its
\* section for a record the response has, synthesized for an omitted one.
C18_OmittedRecordSynthesized ==
    (Answered /\ strategy = "single" /\ SomeRecordsOmitted) =>
        /\ Len(result.flowAnalysis) = Len(flowsData.flows)
        /\ \A k \in 1..Len(flowsData.flows) :
              LET mine == EntriesNamed(flowsData.flows[k].name)
              IN /\ Cardinality(mine) = 1
                 /\ \A j \in mine :
                       IsSynthesized(result.flowAnalysis[j]) = ~HasSection(k)

\* the response follows the grammar of AI_ANALYSIS_PROMPT: its four "##"
\* sections, then one "### <name>" block per record, in the records'
\* order, with a description and improvements of substance
CanonicalResponse ==
    /\ analysisText # NoText
    /\ analysisText.h2s = CanonicalH2s
    /\ Len(analysisText.blocks) = Len(flowsData.flows)
    /\ \A k \in 1..Len(flowsData.flows) :
          analysisText.blocks[k] = Block(flowsData.flows[k].name, 60, 40)

\* C19: a response in the grammar of AI_ANALYSIS_PROMPT for N records is
\* parsed into exactly N entries, and every record's name is the name of
\* exactly one of them.
C19_CanonicalRoundTrip ==
    (Answered /\ strategy = "single" /\ CanonicalResponse) =>
        /\ Len(result.flowAnalysis) = Len(flowsData.flows)
        /\ \A k \in 1..Len(flowsData.flows) :
              Cardinality(EntriesNamed(flowsData.flows[k].name)) = 1

C19_Witness ==
    /\ Answered /\ CanonicalResponse
    /\ Len(flowsData.flows) = 2
    /\ Len(result.flowAnalysis) = 2
    /\ \A k \in 1..2 : result.flowAnalysis[k].name = flowsData.flows[k].name

\* the entries of a canonical response hold nothing of its sections
C19_EntriesAreSynthesized ==
    (Answered /\ strategy = "single" /\ CanonicalResponse) =>
        \A j \in 1..Len(result.flowAnalysis) :
            IsSynthesized(result.flowAnalysis[j])

\* a request body without a RecordSet, or one whose list of records is empty
EmptyOrInvalid ==
    flowsData = NoData \/ Len(flowsData.flows) = 0

\* C20: a RecordSet that is missing or holds zero records is rejected by the
\* validation of the endpoint before any call: no request is ever sent to a
\* provider for it
C20_EmptyRecordSetRejected ==
    EmptyOrInvalid => (attempts = 0 /\ callState # "inflight")

\* C21: a failed call reaches the endpoint with its category, whichever
\* provider produced it: a single-shot run whose request was refused with
\* 401, 403, 429, 400 or 529 is answered with that same status
C21_CategoryReachesCaller ==
    (pc = "replied" /\ phase = "single" /\ callState = "threw"
       /\ callStatus \in ErrorStatuses) => httpStatus = callStatus

\* C22: for every provider, a request that never receives an answer is ended
\* by a timeout: a call in flight does not stay in flight forever
C22_UnansweredCallEnds ==
    (callState = "inflight") ~> (callState # "inflight")

\* C23: every prompt sent for record analysis, for a chunk or for the whole
\* RecordSet, states the exact number of records, lists the display name of
\* each of them and embeds the serialized records
C23_PromptStatesCountAndNames ==
    (callState = "inflight" /\ phase \in {"single", "chunk"}) =>
        /\ prompt.counts # <<>>
        /\ \A k \in 1..Len(prompt.counts) :
               prompt.counts[k] = Len(currentBatch)
        /\ prompt.names = [k \in 1..Len(currentBatch) |-> currentBatch[k].name]
        /\ prompt.data.flows = currentBatch

C25_SandboxSelection ==
    /\ authorizeUrl # NoUrl => authorizeUrl = sfLoginUrl(isSandbox)
    /\ tokenUrl # NoUrl => tokenUrl = sfLoginUrl(isSandbox)

\* the versions of the input that share the name key of version v
Group(v) == versionsOf(flowDetails, nameKey(v))

\* exactly one returned flow per distinct name key of the input, each one a
\* version of its group
OnePerNameKey ==
    /\ \A j, k \in 1..Len(latestFlows) :
          j # k => nameKey(latestFlows[j]) # nameKey(latestFlows[k])
    /\ \A j \in 1..Len(flowDetails) :
          \E k \in 1..Len(latestFlows) :
             nameKey(latestFlows[k]) = nameKey(flowDetails[j])
    /\ \A k \in 1..Len(latestFlows) :
          \E j \in 1..Len(flowDetails) : latestFlows[k] = flowDetails[j]

\* no version among vs is more recent than v
NewestAmong(v, vs) ==
    \A j \in 1..Len(vs) : v.LastModifiedDate >= vs[j].LastModifiedDate

ActiveOf(vs) == SelectSeq(vs, LAMBDA v : v.isActive)

C27_ExponentialBackoff ==
    [][/\ (callState = "inflight" /\ callState' = "backoff") =>
             waitTime' = IF sleeps = 0 THEN 3000 ELSE 2 * waitTime
       /\ (attempts >= 1 /\ attempts' = attempts + 1) =>
             (callState = "backoff" /\ sleeps = attempts)]_vars

\* the fourth retry of a call has been sent after waits of 3, 6, 12 and 24 s
C27_Witness ==
    /\ callState = "inflight"
    /\ retryCount = 4
    /\ sleeps = 4
    /\ waitTime = 24000

\* C28: the planned chunks are in ascending order of aggregate cost: the
\* summed estimated cost of a chunk is at most that of the chunk after it
C28_ChunksAscendByAggregateCost ==
    strategy = "chunked" =>
        \A c \in 1..(Len(chunks) - 1) :
            SumSizes(chunks[c]) <= SumSizes(chunks[c + 1])

\* the records of the chunks, in the order of the chunks
RECURSIVE Flatten(_)
Flatten(cs) == IF cs = <<>> THEN <<>> ELSE Head(cs) \o Flatten(Tail(cs))

\* C28, as the code has it: the planned chunks hold the records in ascending
\* order of their own estimated cost, so no record of a chunk costs more
\* than a record of a later chunk
C28_RecordsAscendAcrossChunks ==
    strategy = "chunked" =>
        LET records == Flatten(chunks)
        IN \A k \in 1..(Len(records) - 1) :
              records[k].size <= records[k + 1].size

\* records given in no ascending order were planned into chunks whose
\* aggregate cost goes down at the last chunk
C28_Witness ==
    /\ strategy = "chunked"
    /\ Len(chunks) >= 2
    /\ flowsData.flows # SortBySize(flowsData.flows)
    /\ SumSizes(chunks[Len(chunks) - 1]) > SumSizes(chunks[Len(chunks)])

\* C29: a chunked run over k chunks issues k chunk completions and then
\* exactly one organization-level completion, which is requested only when
\* every chunk has reached Succeeded or FailedIsolated; a single-shot run
\* issues exactly one completion (the retries inside a call not counted)
C29_AggregatorOrdering ==
    /\ strategy = "chunked" =>
          /\ Len(calls) <= Len(chunks) + 1
          /\ \A k \in 1..Len(calls) :
                calls[k] = IF k <= Len(chunks) THEN "chunk" ELSE "org"
          /\ Len(calls) = Len(chunks) + 1 =>
                \A c \in 1..Len(chunks) : Terminal(chunkStatus[c])
          /\ (pc = "replied" /\ result # NoResult) =>
                Len(calls) = Len(chunks) + 1
    /\ strategy = "single" =>
          /\ Len(calls) <= 1
          /\ calls = <<>> \/ calls = <<"single">>
          /\ pc = "replied" => calls = <<"single">>
    /\ strategy = "none" => calls = <<>>

\* a chunked run over three chunks, one of them failed, has been answered
C29_Witness ==
    /\ strategy = "chunked" /\ pc = "replied"
    /\ Len(chunks) = 3
    /\ calls = <<"chunk", "chunk", "chunk", "org">>
    /\ \E c \in 1..3 : chunkStatus[c] = "FailedIsolated"
    /\ \E c \in 1..3 : chunkStatus[c] = "Succeeded"

\* the response has a "## Individual Flow Analysis" section whose body is
\* one "### <name>" sub-section per record, in the records' order, each with
\* a description and improvements of substance
IndividualSectionResponse ==
    /\ analysisText # NoText
    /\ Len(analysisText.h2s) > 0
    /\ analysisText.h2s[Len(analysisText.h2s)].title = TITLE_INDIVIDUAL
    /\ Len(flowsData.flows) > 0
    /\ Len(analysisText.blocks) = Len(flowsData.flows)
    /\ \A k \in 1..Len(flowsData.flows) :
          analysisText.blocks[k] = Block(flowsData.flows[k].name, 60, 40)

\* C30: when the response has a "## Individual Flow Analysis" section made
\* of "### <name>" sub-sections, the entry of each named record carries the
\* content of its own sub-section, not synthesized placeholder text
C30_SubSectionsCarryContent ==
    (Answered /\ strategy = "single" /\ IndividualSectionResponse) =>
        \A k \in 1..Len(flowsData.flows) :
            \E j \in 1..Len(result.flowAnalysis) :
                /\ result.flowAnalysis[j].name = flowsData.flows[k].name
                /\ ~IsSynthesized(result.flowAnalysis[j])
                /\ result.flowAnalysis[j].businessDescription =
                      [k |-> "labeled", len |-> analysisText.blocks[k].d]
                /\ result.flowAnalysis[j].improvements =
                      [k |-> "labeled", len |-> analysisText.blocks[k].m]

\* C31: the global section headers the prompt asks for are recognized: a
\* response with the sections "Global overview of the selected flows",
\* "Potential Risks" and "Global Improvements on the selected flows" yields
\* organizationOverview, potentialRisks and organizationImprovements, each
\* non-empty and taken from its own section
C31_GlobalSectionsRecognized ==
    (Answered /\ strategy = "single" /\ analysisText.h2s = CanonicalH2s) =>
        /\ result.organizationOverview = sectionField(CanonicalH2s[1].len)
        /\ result.potentialRisks = sectionField(CanonicalH2s[2].len)
        /\ result.organizationImprovements = sectionField(CanonicalH2s[3].len)

\* lines 828-835: the captures of the business patterns that match a
\* section, in the order the patterns are tried: the labeled line, then the
\* text after "Business Description:" up to the next "Improvement"
businessPatterns(s) ==
    IF s.d < 0 THEN <<>>
    ELSE <<[k |-> "labeled", len |-> s.d],
           [k |-> "unlabeled", len |-> 3 + s.d + (IF s.m >= 0 THEN 3 ELSE 0)]>>

\* lines 850-857: the captures of the improvement patterns that match
improvementPatterns(s) ==
    IF s.m < 0 THEN <<>>
    ELSE <<[k |-> "labeled", len |-> s.m],
           [k |-> "unlabeled", len |-> 3 + s.m]>>

\* the first capture longer than min, the placeholder when there is none
RECURSIVE FirstQualifying(_, _, _)
FirstQualifying(captures, min, placeholder) ==
    IF captures = <<>> THEN placeholder
    ELSE IF Head(captures).len > min THEN Head(captures)
    ELSE FirstQualifying(Tail(captures), min, placeholder)

\* the sections of a response without "##" headers that reach the
\* extraction loop with a name
ExtractedSections ==
    SelectSeq(flowSections([lead |-> analysisText.lead,
                            blocks |-> analysisText.blocks], flowsData.flows),
              LAMBDA s : s.len >= 50 /\ s.hasHeader)

\* a section where no improvement pattern qualifies while a description
\* pattern other than the first one does
C32_Witness ==
    /\ Answered /\ analysisText.h2s = <<>>
    /\ \E k \in 1..Len(ParsedEntries) :
          /\ ParsedEntries[k].improvements = GENERIC_IMPROVEMENT
          /\ ParsedEntries[k].businessDescription.k = "unlabeled"

\* C32: every section that reaches the extraction loop yields an entry; its
\* description is the first business pattern capture longer than 50 and its
\* improvements the first improvement pattern capture longer than 30, each
\* replaced by its own generic placeholder when no pattern qualifies,
\* whatever happened to the other field
C32_FirstQualifyingPattern ==
    (Answered /\ analysisText.h2s = <<>>) =>
        /\ Len(ParsedEntries) = Len(ExtractedSections)
        /\ \A k \in 1..Len(ExtractedSections) :
              /\ ParsedEntries[k].name = ExtractedSections[k].name
              /\ ParsedEntries[k].businessDescription =
                    FirstQualifying(businessPatterns(ExtractedSections[k]),
                                    50, GENERIC_DESCRIPTION)
              /\ ParsedEntries[k].improvements =
                    FirstQualifying(improvementPatterns(ExtractedSections[k]),
                                    30, GENERIC_IMPROVEMENT)

\* a run over a provider id outside openai, claude, mistral and gemini has
\* been answered after the chunked strategy went through two chunks or more
C34_Witness ==
    /\ provider = "other"
    /\ pc = "replied"
    /\ strategy = "chunked"
    /\ Len(chunks) >= 2
    /\ calls = [k \in 1..(Len(chunks) + 1) |->
                  IF k <= Len(chunks) THEN "chunk" ELSE "org"]

\* C34: a provider id outside openai, claude, mistral and gemini never
\* causes a network call; the single-shot strategy fails (the endpoint
\* answers 500 without a result), the chunked strategy answers 200 with a
\* placeholder entry for every record and the fixed fallback narrative
C34_UnsupportedProvider ==
    provider \notin Supported =>
        /\ attempts = 0
        /\ callState \in {"none", "threw"}
        /\ (pc = "replied" /\ strategy = "single") =>
              httpStatus = 500 /\ result = NoResult
        /\ (pc = "replied" /\ strategy = "chunked") =>
              /\ httpStatus = 200
              /\ result.organizationOverview =
                    FALLBACK_OVERVIEW(Len(flowsData.flows))
              /\ result.potentialRisks = FALLBACK_FIELD
              /\ result.organizationImprovements = FALLBACK_FIELD
              /\ Len(result.flowAnalysis) = Len(flowsData.flows)
              /\ result.flowAnalysis =
                    [k \in 1..Len(Flatten(chunks)) |->
                        unavailableEntry(Flatten(chunks)[k])]
              /\ \A k \in 1..Len(flowsData.flows) :
                    \E j \in 1..Len(result.flowAnalysis) :
                        result.flowAnalysis[j] =
                            unavailableEntry(flowsData.flows[k])

AnalysisAnswered(r) ==
    /\ requests[r].endpoint = "/api/flows/ai-analysis"
    /\ requests[r].pc = "answered"
    /\ requests[r].status = 200

\* two chunked runs are in flight together, each having pushed the entry
\* of its first chunk
C33_Witness ==
    \E r1, r2 \in Requests :
        /\ r1 # r2
        /\ \A r \in {r1, r2} :
              /\ requests[r].endpoint = "/api/flows/ai-analysis"
              /\ requests[r].chunked
              /\ requests[r].pc = "await"
              /\ requests[r].i = 2
              /\ requests[r].n = 2

\* C33: analysis runs whose awaits interleave share no accumulator: the
\* entries a run has accumulated, and the entries it returns, are those of
\* the records of its own RecordSet, one per record, never entries of
\* another run
C33_RunIsolation ==
    \A r \in Requests :
        /\ (/\ requests[r].endpoint = "/api/flows/ai-analysis"
            /\ requests[r].chunked
            /\ requests[r].pc = "await") =>
              /\ Len(accumulators[r]) = requests[r].i - 1
              /\ \A k \in 1..Len(accumulators[r]) :
                    accumulators[r][k].name = <<r, k>>
        /\ AnalysisAnswered(r) =>
              /\ Len(requests[r].body) = requests[r].n
              /\ \A k \in 1..requests[r].n : requests[r].body[k].name = <<r, k>>

\* a request received before the first login and one received after a
\* logout have both been answered
C35_Witness ==
    \E r1, r2 \in Requests :
        /\ requests[r1].pc = "answered" /\ requests[r2].pc = "answered"
        /\ ~requests[r1].tokenAtArrival /\ requests[r1].stale
        /\ ~requests[r2].tokenAtArrival /\ ~requests[r2].stale
        /\ loggedOut
        /\ requests[r1].endpoint = "/api/flows/chat"
        /\ requests[r2].endpoint = "/api/flows/ai-analysis"

\* C35: a request to one of the eight API routes that is received while no
\* access token is stored is answered 401 and starts neither a Salesforce
\* query nor a Completion Client call
C35_AuthenticationGuard ==
    \A r \in Requests :
        (requests[r].endpoint \in Endpoints /\ ~requests[r].tokenAtArrival) =>
            /\ requests[r].pc = "answered"
            /\ requests[r].status = 401
            /\ r \notin sfQueries
            /\ r \notin aiCalls

\* the stored context is empty or holds the four values of one request
\* that was answered with that result
ContextOfOneRequest ==
    \/ aiContext = EmptyContext
    \/ \E r \in Requests :
          /\ AnalysisAnswered(r)
          /\ aiContext = [provider |-> r, apiKey |-> r, flowsData |-> r,
                          analysisResult |-> requests[r].body]

\* one analysis request has succeeded and its values are stored, another
\* one has been answered with an error
C36_Witness ==
    \E r1, r2 \in Requests :
        /\ AnalysisAnswered(r1)
        /\ requests[r1].chunked
        /\ aiContext.provider = r1
        /\ aiContext.analysisResult # <<>>
        /\ requests[r2].endpoint = "/api/flows/ai-analysis"
        /\ requests[r2].pc = "answered"
        /\ requests[r2].status = 500

\* C36: the stored AI context changes only when an analysis request is
\* answered 200, and then holds the provider, key, RecordSet and result of
\* that request, or when a logout empties it; a request answered with an
\* error leaves it as it was; it never holds fields of different requests
C36_ContextUpdate ==
    [][/\ ContextOfOneRequest'
       /\ aiContext' # aiContext =>
             \/ aiContext' = EmptyContext /\ ~accessToken' /\ loggedOut'
             \/ \E r \in Requests :
                   /\ requests[r].pc = "await"
                   /\ AnalysisAnswered(r)'
                   /\ aiContext'.provider = r
       /\ \A r \in Requests :
             (requests[r].pc # "answered" /\ requests'[r].pc = "answered"
                /\ requests'[r].status # 200) => aiContext' = aiContext]_vars

\* C37: once a logout has been answered, the stored AI context is empty
\* unless an analysis request received after that logout has succeeded
C37_LogoutClearsContext ==
    (loggedOut /\ aiContext # EmptyContext) =>
        ~requests[aiContext.provider].stale

\* the credentials of a session are used by a login request more than ten
\* minutes after they were stored
ExpiredEntryUsed ==
    \E k \in 1..Len(credentialUses) :
        /\ credentialUses[k].owner # ENV_CREDENTIALS
        /\ credentialUses[k].age > TEN_MINUTES

\* C39: credentials stored by /auth/set-credentials are never used by
\* /auth/salesforce or /auth/callback once they are older than 10 minutes;
\* after the callback of a session has succeeded its credentials are not
\* used again; two set-credentials requests never get the same session id
C39_CredentialLifetime ==
    /\ \A k \in 1..Len(credentialUses) :
          credentialUses[k].owner # ENV_CREDENTIALS =>
              credentialUses[k].age <= TEN_MINUTES
    /\ \A j, k \in 1..Len(credentialUses) :
          (/\ j < k
           /\ credentialUses[j].connected
           /\ credentialUses[j].owner # ENV_CREDENTIALS) =>
              credentialUses[k].owner # credentialUses[j].owner
    /\ \A j, k \in 1..Len(issued) : j # k => issued[j] # issued[k]

RECURSIVE ProgressPercents(_)
ProgressPercents(events) ==
    IF events = <<>> THEN <<>>
    ELSE (IF Head(events).type = "progress" THEN <<Head(events).percent>>
          ELSE <<>>) \o ProgressPercents(Tail(events))

IsTerminalEvent(e) == e.type \in {"complete", "error"}

\* the percent values of a whole retrieval of n flows
ExpectedPercents(n) ==
    <<0, 10>> \o [k \in 1..n |-> percentOf(k - 1, n)] \o <<95>>

\* C38: on /api/flows/progress the first event is 'init'; the percent
\* values of the progress events never decrease, stay within 0..95 and are
\* 0, 10, one value per flow and 95; at most one terminal event is written
\* and it is the last one; once it is written or the client has left, the
\* heartbeat timer is cleared and nothing more is written to the stream
C38_ProgressStreamProtocol ==
    LET percents == ProgressPercents(stream)
    IN /\ stream # <<>> => stream[1].type = "init"
       /\ \A k \in 1..Len(percents) : percents[k] \in 0..95
       /\ \A j, k \in 1..Len(percents) : j < k => percents[j] <= percents[k]
       /\ streamPc \in {"flow", "pause"} =>
             percents = SubSeq(ExpectedPercents(flowCount), 1, flowIndex + 3)
       /\ \A k \in 1..Len(stream) : IsTerminalEvent(stream[k]) => k = Len(stream)
       /\ streamPc = "done" <=> (stream # <<>> /\ IsTerminalEvent(stream[Len(stream)]))
       /\ (resFinished \/ ~clientConnected) => ~heartbeatTimer
       /\ \A k \in 1..Len(stream) : stream[k].connected

=============================================================================
